---- MODULE Spec2Model ----
(***************************************************************************)
(* neat: reversible bulk moves/deletes with an undo log, duplicate         *)
(* detection, and move planning.                                           *)
(*                                                                         *)
(* The filesystem is a tree below the organised base directory: a function *)
(* from the paths that exist to their entry (a directory, or a regular     *)
(* file with the identity of its content).  A path is a sequence of names; *)
(* a name is a tuple <<stem>> or <<stem, c1, ...>>, the latter being the   *)
(* name resolve_conflict builds as "stem_c1..." in the same directory.     *)
(***************************************************************************)
EXTENDS Integers, Sequences, FiniteSets, TLC

\* ---------------------------------------------------------------- bounds
MaxMoves == 2
MaxMutations == 1
MaxUndos == 2
MaxHistOps == 5
MaxFiles == 3
MaxContentLen == 2
\* Length of the prefix quick_hash_4kb reads, in model bytes (4096 in the code).
QuickPrefixLen == 1
MaxPlanFiles == 2
MaxRules == 2
MaxTokens == 5
MaxImages == 3
HashBits == 2
MaxParFiles == 4
MaxGroupFiles == 4
\* The width of u64 in the model; the code has 64.
U64Bits == 5
\* The files of a scanned tree, and the scan options set at once.
MaxScanFiles == 2
MaxActiveFilters == 2
\* The positions of an extension that carry a letter case.
MaxCasedLetters == 2
\* The width of u64 in parse_duration (the code has 64), and the length of its input.
DurationBits == 22
MaxDurationLen == 4

\* ------------------------------------------------------- program constants
MAX_BATCHES == 50

\* ------------------------------------------------------------------ paths
A == <<"a">>
B == <<"b">>
Root == <<>>
EmptyPath == <<>>

Parent(p) == SubSeq(p, 1, Len(p) - 1)

IsPrefix(p, q) == Len(p) <= Len(q) /\ SubSeq(q, 1, Len(p)) = p

DirEntry == [kind |-> "dir", id |-> <<>>]
FileEntry(id) == [kind |-> "file", id |-> id]

exists(f, p) == p \in DOMAIN f
is_dir(f, p) == p \in DOMAIN f /\ f[p].kind = "dir"
is_file(f, p) == p \in DOMAIN f /\ f[p].kind = "file"

Files(f) == {p \in DOMAIN f : f[p].kind = "file"}
\* The regular files of a filesystem with their content, directories left out.
FileView(f) == [p \in Files(f) |-> f[p].id]

\* std::fs::create_dir_all: creates every missing ancestor, top down; fails
\* when an ancestor is a regular file or when the directory that would hold
\* a new entry is read-only.  Directories created before the failure stay.
RECURSIVE create_dir_all(_, _, _)
create_dir_all(f, ro, dir) ==
    IF dir \in DOMAIN f
    THEN [ok |-> f[dir].kind = "dir", fs |-> f]
    ELSE LET r == create_dir_all(f, ro, Parent(dir))
         IN  IF ~r.ok THEN r
             ELSE IF Parent(dir) \in ro THEN [ok |-> FALSE, fs |-> r.fs]
             ELSE [ok |-> TRUE, fs |-> (dir :> DirEntry) @@ r.fs]

\* std::fs::rename(from, to) on a POSIX filesystem.
rename_ok(f, ro, from, to) ==
    /\ from # Root /\ to # Root
    /\ from \in DOMAIN f
    /\ is_dir(f, Parent(to))
    /\ Parent(from) \notin ro /\ Parent(to) \notin ro
    /\ \/ from = to
       \/ /\ f[from].kind = "file"
          /\ (to \notin DOMAIN f \/ f[to].kind = "file")
       \/ /\ f[from].kind = "dir"
          /\ ~IsPrefix(from, to)
          /\ \/ to \notin DOMAIN f
             \/ /\ f[to].kind = "dir"
                /\ ~\E q \in DOMAIN f : q # to /\ IsPrefix(to, q)

rename_fs(f, from, to) ==
    IF from = to THEN f
    ELSE LET moved == {p \in DOMAIN f : IsPrefix(from, p)}
             Reloc(p) == to \o SubSeq(p, Len(from) + 1, Len(p))
             keep == DOMAIN f \ (moved \cup {to})
         IN  [q \in keep \cup {Reloc(p) : p \in moved} |->
                 IF \E p \in moved : Reloc(p) = q
                 THEN f[CHOOSE p \in moved : Reloc(p) = q]
                 ELSE f[q]]

\* std::fs::remove_file(p)
remove_file_ok(f, ro, p) == is_file(f, p) /\ Parent(p) \notin ro
remove_file_fs(f, p) == [q \in DOMAIN f \ {p} |-> f[q]]

\* ------------------------------------------------------------ organizer.rs
\* format!("{}_{}{}", stem, counter, extension) joined to the parent.
Suffixed(path, counter) == Append(Parent(path), Append(path[Len(path)], counter))

resolve_conflict_first_free(f, path) ==
    IF ~exists(f, path) THEN path
    ELSE Suffixed(path, 1)

resolve_conflict(f, path) ==
    IF ~exists(f, path) THEN path
    ELSE LET free == {c \in 1..(Cardinality(DOMAIN f) + 1) : ~exists(f, Suffixed(path, c))}
         IN  Suffixed(path, CHOOSE c \in free : \A d \in free : c <= d)

\* --------------------------------------------------------------- logger.rs
FileOperation(from, to, ty) == [from |-> from, to |-> to, operation_type |-> ty]

log_move(ops, from, to) == Append(ops, FileOperation(from, to, "Move"))

log_delete(ops, path) == Append(ops, FileOperation(path, EmptyPath, "Delete"))

OperationBatch(command, operations) == [command |-> command, operations |-> operations]

add_batch_no_evict(batches, command, operations) ==
    Append(batches, OperationBatch(command, operations))

add_batch(batches, command, operations) ==
    LET pushed == Append(batches, OperationBatch(command, operations))
    IN  IF Len(pushed) > MAX_BATCHES THEN Tail(pushed) ELSE pushed

\* Vec::pop: the batch removed and the batches left.
pop_last_oldest(batches) ==
    [batch |-> batches[1], rest |-> Tail(batches)]

pop_last(batches) ==
    [batch |-> batches[Len(batches)], rest |-> SubSeq(batches, 1, Len(batches) - 1)]


\* Logger::save: nothing is loaded or written for an empty log; otherwise
\* History::load, add_batch, History::save.  io_ok is whether the history
\* file could be read and written.
\* A variant of Logger::save without the early return on an empty log
Logger_save_always(batches, command, operations, io_ok) ==
    IF ~io_ok THEN [ok |-> FALSE, batches |-> batches]
    ELSE [ok |-> TRUE, batches |-> add_batch(batches, command, operations)]

Logger_save(batches, command, operations, io_ok) ==
    IF operations = <<>> THEN [ok |-> TRUE, batches |-> batches]
    ELSE IF ~io_ok THEN [ok |-> FALSE, batches |-> batches]
    ELSE [ok |-> TRUE, batches |-> add_batch(batches, command, operations)]

\* ------------------------------------------------------------------ state
VARIABLES
    fs,         \* the filesystem below the base directory
    ro,         \* directories in which no entry can be created or removed
    neat_ok,    \* whether ~/.neat can be created and its history file written
    history,    \* History as persisted in ~/.neat/history.json
    pc,         \* position of the running command ("idle" between commands)
    moves,      \* execute_moves: the planned moves
    idx,        \* execute_moves / undo: index of the next element
    result,     \* execute_moves: OrganizeResult
    logger,     \* the operations of the in-memory Logger
    batch,      \* undo: the batch taken with pop_last
    mem,        \* undo: the in-memory History after pop_last
    undone,     \* undo: counter
    errors,     \* undo: counter
    performed,  \* renames and deletes done on disk by the running call
    replayed,   \* operations undo has processed, in processing order
    fs0,        \* filesystem when the running call started
    hist0,      \* persisted History when the running call started
    calls,      \* the finished calls, in order
    input,      \* arguments of the pure functions under check
    output      \* their results

vars == <<fs, ro, neat_ok, history, pc, moves, idx, result, logger, batch, mem, undone,
          errors, performed, replayed, fs0, hist0, calls, input, output>>

cmdVars == <<moves, idx, result, logger, batch, mem, undone, errors,
             performed, replayed, fs0, hist0>>

OrganizeResultDefault == [moved |-> 0, skipped |-> 0, errors |-> <<>>, total_size |-> 0]

NoBatch == OperationBatch("", <<>>)

Call(cmd, ret, n, res, perf, f0, f1, h0, h1) ==
    [cmd |-> cmd, ret |-> ret, n |-> n, result |-> res, performed |-> perf,
     fs0 |-> f0, fs1 |-> f1, hist0 |-> h0, hist1 |-> h1]

\* ------------------------------------------------------------ input space
Top == {<<A>>, <<B>>}
Nested == {<<A, A>>, <<A, B>>, <<B, A>>, <<B, B>>}

WellFormed(F, D) ==
    /\ F \cap D = {}
    /\ \A p \in F : Len(p) = 2 => Parent(p) \in D

MkFs(F, D) ==
    [p \in F \cup D \cup {Root} |-> IF p \in F THEN FileEntry(p) ELSE DirEntry]

Layouts ==
    { MkFs({<<A>>, <<B, B>>}, {<<B>>}),
      MkFs({<<A>>, <<B, A>>, <<B, B>>}, {<<B>>}),
      MkFs({<<A>>}, {}),
      MkFs({<<A>>, <<B>>}, {}),
      MkFs({<<B, A>>, <<B, B>>}, {<<B>>}),
      MkFs({<<A, B>>, <<B, A>>}, {<<A>>, <<B>>}) }

ReadOnlyChoices == {{}, {Root}}

SrcPaths == {<<A>>, <<B, A>>, <<B, B>>}
DstPaths == {<<B, A>>, <<A, B>>}

PlannedMove(from, to) == [from |-> from, to |-> to, size |-> Len(from)]
MoveSet == {PlannedMove(f, t) : f \in SrcPaths, t \in DstPaths}

BoundedSeq(S, n) == UNION {[1..k -> S] : k \in 0..n}

OldBatch == OperationBatch("clean", <<FileOperation(<<A, A>>, EmptyPath, "Delete")>>)
\* A batch of an earlier organize run: b/b was moved to a/b, then a to b/a.
\* The files may have been moved or deleted since.
OldMoves ==
    OperationBatch("organize", <<FileOperation(<<B, B>>, <<A, B>>, "Move"),
                                 FileOperation(<<A>>, <<B, A>>, "Move")>>)
HistoryChoices == {<<>>, <<OldBatch>>, <<OldMoves>>}

NumCalls(kinds) == Cardinality({k \in DOMAIN calls : calls[k].cmd \in kinds})
MayMutate == NumCalls({"execute_moves", "execute_clean", "duplicates", "similar"}) < MaxMutations
MayUndo == NumCalls({"undo"}) < MaxUndos

Init ==
    /\ fs \in Layouts
    /\ ro \in ReadOnlyChoices
    /\ neat_ok \in BOOLEAN
    /\ neat_ok \/ ro = {}
    /\ history \in HistoryChoices
    /\ pc = "idle"
    /\ moves = <<>>
    /\ idx = 0
    /\ result = OrganizeResultDefault
    /\ logger = <<>>
    /\ batch = NoBatch
    /\ mem = <<>>
    /\ undone = 0
    /\ errors = 0
    /\ performed = <<>>
    /\ replayed = <<>>
    /\ fs0 = fs
    /\ hist0 = history
    /\ calls = <<>>
    /\ input = <<>>
    /\ output = <<>>

\* ----------------------------------------- organizer.rs: execute_moves
execute_moves_start ==
    /\ pc = "idle"
    /\ MayMutate
    /\ \E ms \in BoundedSeq(MoveSet, MaxMoves) :
         /\ moves' = ms
         /\ IF ms = <<>>
            THEN /\ pc' = "idle"
                 /\ calls' = Append(calls, Call("execute_moves", "Ok", 0,
                                OrganizeResultDefault, <<>>, fs, fs, history, history))
            ELSE /\ pc' = "exec"
                 /\ calls' = calls
    /\ idx' = 1
    /\ result' = OrganizeResultDefault
    /\ logger' = <<>>
    /\ performed' = <<>>
    /\ fs0' = fs
    /\ hist0' = history
    /\ UNCHANGED <<fs, ro, neat_ok, history, batch, mem, undone, errors, replayed, input, output>>

\* An iteration that writes the log to the History after every rename.
execute_moves_step_saving ==
    /\ pc = "exec"
    /\ idx <= Len(moves)
    /\ LET mv == moves[idx]
           parent == Parent(mv.to)
           mk == IF ~exists(fs, parent) THEN create_dir_all(fs, ro, parent)
                 ELSE [ok |-> TRUE, fs |-> fs]
           final_dest == resolve_conflict(mk.fs, mv.to)
       IN  IF ~mk.ok
           THEN \* `?` on create_dir_all: return Err, the logger is dropped
                /\ fs' = mk.fs
                /\ pc' = "idle"
                /\ calls' = Append(calls, Call("execute_moves", "Err", Len(moves),
                               result, performed, fs0, mk.fs, hist0, history))
                /\ UNCHANGED <<idx, result, logger, performed, history>>
           ELSE /\ IF rename_ok(mk.fs, ro, mv.from, final_dest)
                   THEN /\ fs' = rename_fs(mk.fs, mv.from, final_dest)
                        /\ result' = [result EXCEPT !.moved = @ + 1,
                                                    !.total_size = @ + mv.size]
                        /\ logger' = log_move(logger, mv.from, final_dest)
                        /\ performed' = Append(performed,
                                           FileOperation(mv.from, final_dest, "Move"))
                        /\ history' = Logger_save(history, "organize",
                                           <<FileOperation(mv.from, final_dest, "Move")>>,
                                           neat_ok).batches
                   ELSE /\ fs' = mk.fs
                        /\ result' = [result EXCEPT !.skipped = @ + 1,
                                                    !.errors = Append(@, mv.from)]
                        /\ UNCHANGED <<logger, performed, history>>
                /\ idx' = idx + 1
                /\ pc' = IF idx = Len(moves) THEN "exec_save" ELSE "exec"
                /\ calls' = calls
    /\ UNCHANGED <<ro, neat_ok, moves, batch, mem, undone, errors, replayed,
                   fs0, hist0, input, output>>

\* One iteration of `for mv in moves`.
execute_moves_step ==
    /\ pc = "exec"
    /\ idx <= Len(moves)
    /\ LET mv == moves[idx]
           parent == Parent(mv.to)
           mk == IF ~exists(fs, parent) THEN create_dir_all(fs, ro, parent)
                 ELSE [ok |-> TRUE, fs |-> fs]
           final_dest == resolve_conflict(mk.fs, mv.to)
       IN  IF ~mk.ok
           THEN \* `?` on create_dir_all: return Err, the logger is dropped
                /\ fs' = mk.fs
                /\ pc' = "idle"
                /\ calls' = Append(calls, Call("execute_moves", "Err", Len(moves),
                               result, performed, fs0, mk.fs, hist0, history))
                /\ UNCHANGED <<idx, result, logger, performed>>
           ELSE /\ IF rename_ok(mk.fs, ro, mv.from, final_dest)
                   THEN /\ fs' = rename_fs(mk.fs, mv.from, final_dest)
                        /\ result' = [result EXCEPT !.moved = @ + 1,
                                                    !.total_size = @ + mv.size]
                        /\ logger' = log_move(logger, mv.from, final_dest)
                        /\ performed' = Append(performed,
                                           FileOperation(mv.from, final_dest, "Move"))
                   ELSE /\ fs' = mk.fs
                        /\ result' = [result EXCEPT !.skipped = @ + 1,
                                                    !.errors = Append(@, mv.from)]
                        /\ UNCHANGED <<logger, performed>>
                /\ idx' = idx + 1
                /\ pc' = IF idx = Len(moves) THEN "exec_save" ELSE "exec"
                /\ calls' = calls
    /\ UNCHANGED <<ro, neat_ok, history, moves, batch, mem, undone, errors, replayed,
                   fs0, hist0, input, output>>

\* logger.save()? ; Ok(result)
execute_moves_save ==
    /\ pc = "exec_save"
    /\ LET s == Logger_save(history, "organize", logger, neat_ok)
       IN  /\ history' = s.batches
           /\ calls' = Append(calls, Call("execute_moves",
                          IF s.ok THEN "Ok" ELSE "Err", Len(moves),
                          result, performed, fs0, fs, hist0, s.batches))
    /\ pc' = "idle"
    /\ UNCHANGED <<fs, ro, neat_ok, moves, idx, result, logger, batch, mem, undone, errors,
                   performed, replayed, fs0, hist0, input, output>>


\* -------------------------------------------------- commands/undo.rs: run
Reverse(s) == [k \in 1..Len(s) |-> s[Len(s) + 1 - k]]

undo_order_forward(operations) == operations

\* batch.operations.iter().rev()
undo_order(operations) == Reverse(operations)

undo_start ==
    /\ pc = "idle"
    /\ MayUndo
    /\ IF ~neat_ok
       THEN \* History::load()? fails in history_path
            /\ pc' = "idle"
            /\ calls' = Append(calls, Call("undo", "Err", 0,
                           [undone |-> 0, errors |-> 0, batch |-> NoBatch, replayed |-> <<>>],
                           <<>>, fs, fs, history, history))
            /\ UNCHANGED <<batch, mem>>
       ELSE IF history = <<>>
       THEN /\ pc' = "idle"
            /\ calls' = Append(calls, Call("undo", "Ok", 0,
                           [undone |-> 0, errors |-> 0, batch |-> NoBatch, replayed |-> <<>>],
                           <<>>, fs, fs, history, history))
            /\ UNCHANGED <<batch, mem>>
       ELSE /\ batch' = pop_last(history).batch
            /\ mem' = pop_last(history).rest
            /\ pc' = "undo"
            /\ calls' = calls
    /\ idx' = 1
    /\ undone' = 0
    /\ errors' = 0
    /\ performed' = <<>>
    /\ replayed' = <<>>
    /\ fs0' = fs
    /\ hist0' = history
    /\ UNCHANGED <<fs, ro, neat_ok, history, moves, result, logger, input, output>>

\* The body of `for op in batch.operations.iter().rev()` for one operation:
\* the filesystem left, what is added to undone and to errors, and the rename
\* done.
undo_operation_delete_silent(f, rd, op) ==
    LET mk == create_dir_all(f, rd, Parent(op.from))
    IN  IF op.operation_type = "Move" /\ exists(f, op.to) /\ rename_ok(mk.fs, rd, op.to, op.from)
        THEN [fs |-> rename_fs(mk.fs, op.to, op.from), undone |-> 1, errors |-> 0,
              performed |-> <<FileOperation(op.to, op.from, "Move")>>]
        ELSE IF op.operation_type = "Move" /\ exists(f, op.to)
        THEN [fs |-> mk.fs, undone |-> 0, errors |-> 1, performed |-> <<>>]
        ELSE [fs |-> f, undone |-> 0, errors |-> 0, performed |-> <<>>]

undo_operation_missing_fails(f, rd, op) ==
    LET mk == create_dir_all(f, rd, Parent(op.from))
    IN  IF op.operation_type = "Move" /\ exists(f, op.to) /\ rename_ok(mk.fs, rd, op.to, op.from)
        THEN [fs |-> rename_fs(mk.fs, op.to, op.from), undone |-> 1, errors |-> 0,
              performed |-> <<FileOperation(op.to, op.from, "Move")>>]
        ELSE IF op.operation_type = "Move" /\ exists(f, op.to)
        THEN [fs |-> mk.fs, undone |-> 0, errors |-> 1, performed |-> <<>>]
        ELSE [fs |-> f, undone |-> 0, errors |-> 1, performed |-> <<>>]

undo_operation(f, rd, op) ==
    LET mk == create_dir_all(f, rd, Parent(op.from))
    IN  IF op.operation_type = "Move"
        THEN IF exists(f, op.to)
             THEN IF rename_ok(mk.fs, rd, op.to, op.from)
                  THEN [fs |-> rename_fs(mk.fs, op.to, op.from), undone |-> 1, errors |-> 0,
                        performed |-> <<FileOperation(op.to, op.from, "Move")>>]
                  ELSE [fs |-> mk.fs, undone |-> 0, errors |-> 1, performed |-> <<>>]
             ELSE [fs |-> f, undone |-> 0, errors |-> 0, performed |-> <<>>]
        ELSE [fs |-> f, undone |-> 0, errors |-> 1, performed |-> <<>>]

\* One iteration of `for op in batch.operations.iter().rev()`.
undo_step ==
    /\ pc = "undo"
    /\ idx <= Len(batch.operations)
    /\ LET op == undo_order(batch.operations)[idx]
           r == undo_operation(fs, ro, op)
       IN  /\ replayed' = Append(replayed, op)
           /\ fs' = r.fs
           /\ undone' = undone + r.undone
           /\ errors' = errors + r.errors
           /\ performed' = performed \o r.performed
    /\ idx' = idx + 1
    /\ pc' = IF idx = Len(batch.operations) THEN "undo_save" ELSE "undo"
    /\ UNCHANGED <<ro, neat_ok, history, moves, result, logger, batch, mem, fs0, hist0,
                   calls, input, output>>

\* if undone > 0 { history.save()? } ... Ok(())
undo_finish ==
    /\ pc = "undo_save"
    /\ LET h1 == IF undone > 0 THEN mem ELSE history
       IN  /\ history' = h1
           /\ calls' = Append(calls, Call("undo", "Ok", Len(batch.operations),
                          [undone |-> undone, errors |-> errors, batch |-> batch,
                           replayed |-> replayed],
                          performed, fs0, fs, hist0, h1))
    /\ pc' = "idle"
    /\ UNCHANGED <<fs, ro, neat_ok, moves, idx, result, logger, batch, mem, undone, errors,
                   performed, replayed, fs0, hist0, input, output>>

\* ------------------------------------------- core/cleaner.rs: execute_clean
\* The `for file in files` loop: the filesystem left and the paths removed.
RECURSIVE remove_each(_, _, _)
remove_each(f, rd, paths) ==
    IF paths = <<>> THEN [fs |-> f, deleted |-> <<>>]
    ELSE IF remove_file_ok(f, rd, Head(paths))
         THEN LET r == remove_each(remove_file_fs(f, Head(paths)), rd, Tail(paths))
              IN  [fs |-> r.fs, deleted |-> <<Head(paths)>> \o r.deleted]
         ELSE remove_each(f, rd, Tail(paths))

RECURSIVE log_deletes(_, _)
log_deletes(ops, paths) ==
    IF paths = <<>> THEN ops ELSE log_deletes(log_delete(ops, Head(paths)), Tail(paths))

execute_clean ==
    /\ pc = "idle"
    /\ MayMutate
    /\ \E files \in BoundedSeq(SrcPaths, MaxMoves), confirmed \in BOOLEAN :
         IF files = <<>> \/ ~confirmed
         THEN /\ calls' = Append(calls, Call("execute_clean", "Ok", Len(files),
                             [deleted |-> 0], <<>>, fs, fs, history, history))
              /\ UNCHANGED <<fs, history>>
         ELSE LET r == remove_each(fs, ro, files)
                  ops == log_deletes(<<>>, r.deleted)
                  s == Logger_save(history, "clean", ops, neat_ok)
              IN  /\ fs' = r.fs
                  /\ history' = s.batches
                  /\ calls' = Append(calls, Call("execute_clean",
                                 IF s.ok THEN "Ok" ELSE "Err", Len(files),
                                 [deleted |-> Len(r.deleted)], ops,
                                 fs, r.fs, history, s.batches))
    /\ UNCHANGED <<ro, neat_ok, pc, cmdVars, input, output>>

\* --------------------- commands/duplicates.rs, commands/similar.rs: run
RECURSIVE Flatten(_)
Flatten(ss) == IF ss = <<>> THEN <<>> ELSE Head(ss) \o Flatten(Tail(ss))

\* for group in &duplicates { for file in group.files.iter().skip(1) }
duplicates_to_remove(groups) == Flatten([g \in 1..Len(groups) |-> Tail(groups[g])])

\* similar.iter().flat_map(|g| g.similar.iter().map(|(f, _)| f))
similar_to_remove(groups) == Flatten([g \in 1..Len(groups) |-> groups[g].similar])

DistinctSeqs(S, lo, hi) ==
    {s \in BoundedSeq(S, hi) : Len(s) >= lo /\ \A i, j \in 1..Len(s) : i # j => s[i] # s[j]}

GroupChoices == {<<g>> : g \in DistinctSeqs(SrcPaths, 2, 3)}

SimilarChoices ==
    {<<[representative |-> Head(g), similar |-> Tail(g)]>> : g \in DistinctSeqs(SrcPaths, 2, 3)}

\* The deletion phase of the duplicates command: fs::remove_file (or
\* trash::delete) on each file, a counter, no Logger.
duplicates_run ==
    /\ pc = "idle"
    /\ MayMutate
    /\ \E groups \in GroupChoices, delete \in BOOLEAN, execute \in BOOLEAN,
          dry_run \in BOOLEAN, confirmed \in BOOLEAN :
         IF delete /\ execute /\ ~dry_run /\ confirmed
         THEN LET r == remove_each(fs, ro, duplicates_to_remove(groups))
              IN  /\ fs' = r.fs
                  /\ calls' = Append(calls, Call("duplicates", "Ok", Len(r.deleted),
                                 [deleted |-> Len(r.deleted)],
                                 log_deletes(<<>>, r.deleted), fs, r.fs, history, history))
         ELSE /\ fs' = fs
              /\ calls' = Append(calls, Call("duplicates", "Ok", 0, [deleted |-> 0],
                                 <<>>, fs, fs, history, history))
    /\ UNCHANGED <<ro, neat_ok, history, pc, cmdVars, input, output>>

similar_run ==
    /\ pc = "idle"
    /\ MayMutate
    /\ \E groups \in SimilarChoices, delete \in BOOLEAN, execute \in BOOLEAN,
          dry_run \in BOOLEAN, confirmed \in BOOLEAN :
         IF delete /\ execute /\ ~dry_run /\ confirmed
         THEN LET r == remove_each(fs, ro, similar_to_remove(groups))
              IN  /\ fs' = r.fs
                  /\ calls' = Append(calls, Call("similar", "Ok", Len(r.deleted),
                                 [deleted |-> Len(r.deleted)],
                                 log_deletes(<<>>, r.deleted), fs, r.fs, history, history))
         ELSE /\ fs' = fs
              /\ calls' = Append(calls, Call("similar", "Ok", 0, [deleted |-> 0],
                                 <<>>, fs, fs, history, history))
    /\ UNCHANGED <<ro, neat_ok, history, pc, cmdVars, input, output>>

Next ==
    \/ execute_moves_start
    \/ execute_moves_step
    \/ execute_moves_save
    \/ undo_start
    \/ undo_step
    \/ undo_finish
    \/ execute_clean
    \/ duplicates_run
    \/ similar_run

Spec == Init /\ [][Next]_vars


\* ======================================================== claims, Spec
Last(s) == s[Len(s)]

\* The sum of the sizes of the files a sequence of renames moved; the size of
\* a planned move is PlannedMove(from, to).size.
RECURSIVE SumSizes(_)
SumSizes(ops) ==
    IF ops = <<>> THEN 0 ELSE PlannedMove(Head(ops).from, Head(ops).to).size + SumSizes(Tail(ops))
FileIds(f) == {f[p].id : p \in Files(f)}

IsFullExecute(c) ==
    /\ c.cmd = "execute_moves"
    /\ c.ret = "Ok"
    /\ c.n > 0
    /\ c.result.moved = c.n

\* C1: when execute_moves ran a batch in which every move succeeded and undo
\* runs right after it, every regular file is back at the path it had before
\* the batch, with the content it had, and at no other path.
C1_ExecuteThenUndoRestores ==
    \A k \in 1..(Len(calls) - 1) :
        (IsFullExecute(calls[k]) /\ calls[k + 1].cmd = "undo")
            => FileView(calls[k + 1].fs1) = FileView(calls[k].fs0)

\* C2: the destination execute_moves renames to does not exist when it is
\* chosen, and a step of execute_moves never makes a file's content disappear.
C2_RenameNeverReplaces ==
    [][execute_moves_step =>
          /\ performed' # performed => ~exists(fs, Last(performed').to)
          /\ FileIds(fs') = FileIds(fs)
          /\ Cardinality(Files(fs')) = Cardinality(Files(fs))]_vars

\* C2 witness: the second move of a batch found its planned destination taken
\* by the first move of the same batch and was given the suffix 1.
C2_Witness ==
    /\ pc = "exec_save"
    /\ Len(performed) = 2
    /\ moves[1].to = moves[2].to
    /\ performed[1].to = moves[1].to
    /\ performed[2].to = Suffixed(moves[2].to, 1)

\* C3: whenever execute_moves or execute_clean returns, Ok or Err, the renames
\* and deletes it did on disk are, in order, the operations of one batch that
\* it appended to the persisted History.
C3_EveryMutationPersisted ==
    \A k \in 1..Len(calls) :
        (calls[k].cmd \in {"execute_moves", "execute_clean"} /\ calls[k].performed # <<>>)
            => /\ calls[k].hist1 # <<>>
               /\ Last(calls[k].hist1).operations = calls[k].performed
               /\ SubSeq(calls[k].hist1, 1, Len(calls[k].hist1) - 1) = calls[k].hist0

\* C4: execute_moves returns only after it has attempted every planned move:
\* each move is counted as moved or as skipped, and each skipped move has its
\* error message kept.
C4_EveryMoveAttempted ==
    \A k \in 1..Len(calls) :
        calls[k].cmd = "execute_moves"
            => /\ calls[k].result.moved + calls[k].result.skipped = calls[k].n
               /\ Len(calls[k].result.errors) = calls[k].result.skipped

\* C5: the files deleted by the duplicates command and by the similar command
\* are recorded as Delete operations of a batch appended to the persisted
\* History.
C5_DeletionsAreLogged ==
    \A k \in 1..Len(calls) :
        (calls[k].cmd \in {"duplicates", "similar"} /\ calls[k].performed # <<>>)
            => /\ calls[k].hist1 # <<>>
               /\ Last(calls[k].hist1).operations = calls[k].performed
               /\ SubSeq(calls[k].hist1, 1, Len(calls[k].hist1) - 1) = calls[k].hist0

\* C7: undo takes the last batch of the persisted History, which is the batch
\* of the call that logged most recently, and processes its operations from
\* the last logged to the first.
C7_UndoIsLifo ==
    \A k \in 1..Len(calls) :
        (calls[k].cmd = "undo" /\ calls[k].ret = "Ok" /\ calls[k].hist0 # <<>>)
            => LET b == calls[k].result.batch
                   r == calls[k].result.replayed
               IN  /\ b = calls[k].hist0[Len(calls[k].hist0)]
                   /\ Len(r) = Len(b.operations)
                   /\ \A i \in 1..Len(r) : r[i] = b.operations[Len(r) + 1 - i]
                   /\ (k > 1 /\ calls[k - 1].cmd = "execute_moves"
                         /\ calls[k - 1].ret = "Ok" /\ calls[k - 1].performed # <<>>)
                        => b.operations = calls[k - 1].performed

\* C7 witness: undo ran on a History of two batches, the later one holding two
\* different moves logged by the execute_moves call before it.
C7_Witness ==
    \E k \in 2..Len(calls) :
        /\ calls[k].cmd = "undo"
        /\ Len(calls[k].hist0) = 2
        /\ calls[k - 1].cmd = "execute_moves"
        /\ Len(calls[k - 1].performed) = 2
        /\ calls[k - 1].performed[1] # calls[k - 1].performed[2]
        /\ calls[k].result.replayed = <<calls[k - 1].performed[2], calls[k - 1].performed[1]>>

\* C11: from the start of a batch until its last move has been attempted,
\* the persisted History is the one execute_moves found when it was called,
\* so it holds no batch for the renames already done; the History is written
\* in one step, after the loop, with all the renames in one batch.
C11_HistoryWrittenAfterBatch ==
    /\ [](pc \in {"exec", "exec_save"} => history = hist0)
    /\ [][(pc \in {"exec", "exec_save"} /\ history' # history) =>
            /\ pc = "exec_save"
            /\ idx = Len(moves) + 1
            /\ pc' = "idle"
            /\ history' = add_batch(history, "organize", performed)]_vars

\* C11 witness: execute_moves is between the first and the second move of a
\* batch, the first rename is done and the History is the one of the start.
C11_Witness ==
    /\ pc = "exec"
    /\ idx = 2
    /\ Len(moves) = 2
    /\ Len(performed) = 1
    /\ neat_ok
    /\ history = hist0

NumDeletes(operations) ==
    Cardinality({i \in 1..Len(operations) : operations[i].operation_type = "Delete"})

\* C12: when undo processes a Delete operation it adds one to the error count,
\* restores nothing and changes no file, and it processes the operation once.
C12_DeleteIsNeverReversed ==
    /\ [][(undo_step /\ Last(replayed').operation_type = "Delete") =>
            /\ errors' = errors + 1
            /\ undone' = undone
            /\ fs' = fs
            /\ performed' = performed
            /\ NumDeletes(replayed') = NumDeletes(replayed) + 1]_vars
    /\ [](\A k \in 1..Len(calls) :
            (calls[k].cmd = "undo" /\ calls[k].ret = "Ok") =>
                /\ NumDeletes(calls[k].result.replayed)
                       = NumDeletes(calls[k].result.batch.operations)
                /\ calls[k].result.errors >= NumDeletes(calls[k].result.batch.operations))

\* C12 witness: execute_clean deleted a file and logged it, the undo after it
\* finished with one error and the file is still absent.
C12_Witness ==
    \E k \in 2..Len(calls) :
        /\ calls[k - 1].cmd = "execute_clean"
        /\ Len(calls[k - 1].performed) = 1
        /\ calls[k].cmd = "undo"
        /\ calls[k].result.batch.operations = calls[k - 1].performed
        /\ calls[k].result.errors = 1
        /\ ~exists(calls[k].fs1, calls[k - 1].performed[1].from)

C14_EveryOperationCounted ==
    \A k \in 1..Len(calls) :
        /\ (calls[k].cmd = "execute_moves" /\ calls[k].ret = "Ok") =>
              /\ calls[k].result.moved + calls[k].result.skipped = calls[k].n
              /\ Len(calls[k].result.errors) = calls[k].result.skipped
              /\ calls[k].result.moved = Len(calls[k].performed)
              /\ calls[k].result.total_size = SumSizes(calls[k].performed)
        /\ (calls[k].cmd = "undo" /\ calls[k].ret = "Ok") =>
              calls[k].result.undone + calls[k].result.errors
                  = Len(calls[k].result.batch.operations)


\* =================================================== History on its own
\* add_batch and pop_last applied in any order to a History that starts empty,
\* one short of the cap, or at the cap.  Batch number k holds one Delete of
\* the file "f_k", so that batches can be told apart.
BatchNo(k) == OperationBatch("clean", log_delete(<<>>, <<<<"f", k>>>>))

HistStartLens == {0, MAX_BATCHES - 1, MAX_BATCHES}

InitHist ==
    /\ \E n \in HistStartLens :
         /\ history = [k \in 1..n |-> BatchNo(k)]
         /\ idx = n + 1
    /\ fs = MkFs({}, {})
    /\ ro = {}
    /\ neat_ok = TRUE
    /\ pc = "hist"
    /\ moves = <<>>
    /\ result = OrganizeResultDefault
    /\ logger = <<>>
    /\ batch = NoBatch
    /\ mem = <<>>
    /\ undone = 0
    /\ errors = 0
    /\ performed = <<>>
    /\ replayed = <<>>
    /\ fs0 = fs
    /\ hist0 = history
    /\ calls = <<>>
    /\ input = <<>>
    /\ output = <<>>

\* history.add_batch(command, operations) with a batch not seen before
history_add_batch ==
    /\ pc = "hist"
    /\ undone + errors < MaxHistOps
    /\ history' = add_batch(history, BatchNo(idx).command, BatchNo(idx).operations)
    /\ batch' = BatchNo(idx)
    /\ idx' = idx + 1
    /\ undone' = undone + 1
    /\ hist0' = history
    /\ UNCHANGED <<fs, ro, neat_ok, pc, moves, result, logger, mem, errors, performed,
                   replayed, fs0, calls, input, output>>

\* history.pop_last()
history_pop_last ==
    /\ pc = "hist"
    /\ undone + errors < MaxHistOps
    /\ IF history = <<>>
       THEN UNCHANGED <<history, batch>>
       ELSE /\ history' = pop_last(history).rest
            /\ batch' = pop_last(history).batch
    /\ errors' = errors + 1
    /\ hist0' = history
    /\ UNCHANGED <<fs, ro, neat_ok, pc, moves, idx, result, logger, mem, undone,
                   performed, replayed, fs0, calls, input, output>>

NextHist == history_add_batch \/ history_pop_last

SpecHist == InitHist /\ [][NextHist]_vars

\* C6: History never holds more than 50 batches, and add_batch on a History
\* of exactly 50 batches leaves batches 2..50 in their order followed by the
\* new batch.
C6_HistoryCapped ==
    /\ [](Len(history) <= MAX_BATCHES)
    /\ [][(history_add_batch /\ Len(history) = MAX_BATCHES) =>
             /\ Len(history') = MAX_BATCHES
             /\ \A i \in 1..(MAX_BATCHES - 1) : history'[i] = history[i + 1]
             /\ history'[MAX_BATCHES] = BatchNo(idx)]_vars

\* C6 witness: add_batch has just run on a full History: the oldest batch is
\* gone and the new batch is last.
C6_Witness ==
    /\ pc = "hist"
    /\ Len(hist0) = MAX_BATCHES
    /\ Len(history) = MAX_BATCHES
    /\ history[1] = hist0[2]
    /\ history[MAX_BATCHES] = batch
    /\ batch = BatchNo(idx - 1)
    /\ batch \notin {hist0[i] : i \in 1..Len(hist0)}


\* ============================================== duplicate detection
\* A FileInfo with the content the file has on disk.  `readable` is whether
\* File::open and the reads succeed.
Bytes == {0, 1}
Contents == BoundedSeq(Bytes, MaxContentLen)

FileInfo(path, content, readable) ==
    [path |-> path, size |-> Len(content), content |-> content, readable |-> readable]

\* Fingerprint functions: injective, colliding on everything, colliding on
\* contents with the same byte sum.
HashFamilies == {"injective", "constant", "sum"}

RECURSIVE SumBytes(_)
SumBytes(c) == IF c = <<>> THEN 0 ELSE Head(c) + SumBytes(Tail(c))

Hash(fam, data) ==
    CASE fam = "injective" -> data
      [] fam = "constant" -> <<>>
      [] fam = "sum" -> <<SumBytes(data) % 2>>

Min(a, b) == IF a < b THEN a ELSE b
Err == [ok |-> FALSE]
Ok(v) == [ok |-> TRUE, value |-> v]

\* A variant of quick_hash_4kb whose key depends on the path as well
quick_hash_4kb_of_path(fam, file) ==
    IF ~file.readable THEN Err
    ELSE LET chunk_size == Min(QuickPrefixLen, Len(file.content))
         IN  Ok(<<Hash(fam, SubSeq(file.content, 1, chunk_size)), Len(file.content), file.path>>)

\* core/duplicates.rs quick_hash_4kb: format!("{:016x}_{}", hash, size)
quick_hash_4kb(fam, file) ==
    IF ~file.readable THEN Err
    ELSE LET chunk_size == Min(QuickPrefixLen, Len(file.content))
         IN  Ok(<<Hash(fam, SubSeq(file.content, 1, chunk_size)), Len(file.content)>>)

\* src/duplicates.rs hash_file: hash of the whole content
hash_file(fam, file) ==
    IF ~file.readable THEN Err ELSE Ok(Hash(fam, file.content))

files_are_equal_same_size(f1, f2) ==
    IF ~f1.readable \/ ~f2.readable THEN Err
    ELSE Ok(Len(f1.content) = Len(f2.content))

\* core/duplicates.rs files_are_equal
files_are_equal(f1, f2) ==
    IF ~f1.readable \/ ~f2.readable THEN Err
    ELSE IF Len(f1.content) # Len(f2.content) THEN Ok(FALSE)
    ELSE IF Len(f1.content) = 0 THEN Ok(TRUE)
    ELSE Ok(\A i \in 1..Len(f1.content) : f1.content[i] = f2.content[i])

unwrap_or(r, dflt) == IF r.ok THEN r.value ELSE dflt

DuplicateGroup(hash, files) == [hash |-> hash, files |-> files, size |-> files[1].size]

\* The files at the indexes of S, in index order.
RECURSIVE Pick(_, _, _)
Pick(files, S, j) ==
    IF j > Len(files) THEN <<>>
    ELSE (IF j \in S THEN <<files[j]>> ELSE <<>>) \o Pick(files, S, j + 1)

\* The pairwise comparison of find_duplicates_in_group for groups of three or
\* more: file i collects the later unprocessed files equal to it.
RECURSIVE compare_pairs(_, _, _)
compare_pairs(files, i, processed) ==
    IF i > Len(files) THEN {}
    ELSE IF i \in processed THEN compare_pairs(files, i + 1, processed)
    ELSE LET same == {j \in (i + 1)..Len(files) :
                         /\ j \notin processed
                         /\ unwrap_or(files_are_equal(files[i], files[j]), FALSE)}
             current_group == <<files[i]>> \o Pick(files, same, 1)
             rest == compare_pairs(files, i + 1, processed \cup {i} \cup same)
         IN  IF Len(current_group) > 1 THEN {current_group} \cup rest ELSE rest

\* core/duplicates.rs find_duplicates_in_group: the groups as sequences of files
find_duplicates_in_group(files) ==
    IF Len(files) < 2 THEN {}
    ELSE IF Len(files) = 2
         THEN IF unwrap_or(files_are_equal(files[1], files[2]), FALSE)
              THEN {<<files[1], files[2]>>}
              ELSE {}
         ELSE compare_pairs(files, 1, {})

by_size_keep_empty(files) ==
    {sz \in {files[i].size : i \in 1..Len(files)} : TRUE}

\* Step 1 of find_duplicates: the sizes that key by_size (empty files left out)
by_size(files) ==
    {sz \in {files[i].size : i \in 1..Len(files)} : sz > 0}

\* The files of the size buckets that hold more than one file.
potential_dups(files) ==
    {i \in 1..Len(files) :
        /\ files[i].size \in by_size(files)
        /\ \E j \in 1..Len(files) : j # i /\ files[j].size = files[i].size}

\* The bucket of a key: the candidate files with that key, in the order in
\* which the parallel workers pushed them.
Bucket(order, cand, keyOf(_), key) ==
    SelectSeq(order, LAMBDA f : f.path \in cand /\ keyOf(f).ok /\ keyOf(f).value = key)

Keys(order, cand, keyOf(_)) ==
    {keyOf(order[i]).value : i \in {j \in 1..Len(order) : order[j].path \in cand /\ keyOf(order[j]).ok}}

\* core/duplicates.rs find_duplicates; `order` is the input in the order the
\* workers finished hashing.  The result Vec is taken as a set of groups.
core_find_duplicates(files, order, fam) ==
    IF files = <<>> THEN {}
    ELSE LET cand == {files[i].path : i \in potential_dups(files)}
             keyOf(f) == quick_hash_4kb(fam, f)
             quick_hash_groups == {Bucket(order, cand, keyOf, k) : k \in Keys(order, cand, keyOf)}
             candidates == {g \in quick_hash_groups : Len(g) > 1}
         IN  {DuplicateGroup(Hash(fam, g[1].content), g) :
                 g \in UNION {find_duplicates_in_group(c) : c \in candidates}}

\* src/duplicates.rs find_duplicates: groups are the buckets of hash_file
find_duplicates(files, order, fam) ==
    IF files = <<>> THEN {}
    ELSE LET cand == {files[i].path : i \in potential_dups(files)}
             keyOf(f) == hash_file(fam, f)
             by_hash == {Bucket(order, cand, keyOf, k) : k \in Keys(order, cand, keyOf)}
         IN  {DuplicateGroup(Hash(fam, g[1].content), g) : g \in {b \in by_hash : Len(b) > 1}}


InitDup ==
    /\ \E n \in 0..MaxFiles, fam \in HashFamilies :
         \E cs \in [1..n -> Contents], bad \in 0..n :
            input = [files |-> [i \in 1..n |-> FileInfo(i, cs[i], i # bad)], fam |-> fam]
    /\ output = [impl |-> "none", groups |-> {}]
    /\ pc = "dup"
    /\ fs = MkFs({}, {})
    /\ ro = {}
    /\ neat_ok = TRUE
    /\ history = <<>>
    /\ moves = <<>>
    /\ idx = 0
    /\ result = OrganizeResultDefault
    /\ logger = <<>>
    /\ batch = NoBatch
    /\ mem = <<>>
    /\ undone = 0
    /\ errors = 0
    /\ performed = <<>>
    /\ replayed = <<>>
    /\ fs0 = fs
    /\ hist0 = history
    /\ calls = <<>>

Orders(files) ==
    {[i \in 1..Len(files) |-> files[p[i]]] : p \in Permutations(1..Len(files))}

dupFrame == <<fs, ro, neat_ok, history, pc, cmdVars, calls, input>>

\* find_duplicates of core/duplicates.rs on the input
core_find_duplicates_run ==
    /\ pc = "dup"
    /\ \E order \in Orders(input.files) :
         output' = [impl |-> "core",
                    groups |-> core_find_duplicates(input.files, order, input.fam)]
    /\ UNCHANGED dupFrame

\* find_duplicates of src/duplicates.rs on the input
find_duplicates_run ==
    /\ pc = "dup"
    /\ \E order \in Orders(input.files) :
         output' = [impl |-> "sha256",
                    groups |-> find_duplicates(input.files, order, input.fam)]
    /\ UNCHANGED dupFrame

NextDup == core_find_duplicates_run \/ find_duplicates_run

SpecDup == InitDup /\ [][NextDup]_vars

Members(g) == {g.files[i] : i \in 1..Len(g.files)}
InputFiles == {input.files[i] : i \in 1..Len(input.files)}

\* C8: any two files that find_duplicates returns in one group have the same
\* size and the same content byte for byte, whatever the fingerprint function.
C8_GroupsAreByteIdentical ==
    pc = "dup" =>
        \A g \in output.groups : \A x, y \in Members(g) :
            /\ x.size = y.size
            /\ x.content = y.content

\* C9: no group holds a zero-byte file or a file whose size no other input
\* file has, every group has at least two members, and an empty input gives
\* no group.
C9_NoGroupBelowThreshold ==
    pc = "dup" =>
        /\ \A g \in output.groups :
              /\ Len(g.files) >= 2
              /\ \A x \in Members(g) :
                    /\ x.size > 0
                    /\ x \in InputFiles
                    /\ \E y \in InputFiles : y.path # x.path /\ y.size = x.size
        /\ input.files = <<>> => output.groups = {}

\* C9 witness: find_duplicates ran on two readable empty files and a third
\* file of a size of its own, and returned no group.
C9_Witness ==
    /\ pc = "dup"
    /\ output.impl # "none"
    /\ Len(input.files) = 3
    /\ input.files[1].size = 0 /\ input.files[2].size = 0 /\ input.files[3].size > 0
    /\ \A x \in InputFiles : x.readable
    /\ output.groups = {}


\* ===================================================== planning moves
\* Paths are relative to the base directory: the sequence of their
\* components.  None is an absent Option.
None == "<none>"

\* classifier.rs: the extension table
ImagesExt == {"jpg", "jpeg", "png", "gif", "bmp", "svg", "webp", "ico", "tiff", "heic", "raw"}
DocumentsExt == {"pdf", "doc", "docx", "txt", "rtf", "odt", "xls", "xlsx", "ppt", "pptx",
                 "csv", "md", "epub"}
VideosExt == {"mp4", "avi", "mov", "mkv", "wmv", "flv", "webm", "m4v", "mpeg", "mpg"}
AudioExt == {"mp3", "wav", "flac", "aac", "ogg", "wma", "m4a", "opus"}
ArchivesExt == {"zip", "tar", "gz", "rar", "7z", "bz2", "xz", "tgz", "dmg", "iso"}
CodeExt == {"rs", "py", "js", "ts", "go", "java", "c", "cpp", "h", "hpp", "cs", "rb", "php",
            "swift", "kt", "scala", "html", "css", "scss", "vue", "jsx", "tsx", "sh", "bash",
            "zsh", "fish"}
DataExt == {"json", "xml", "yaml", "yml", "toml", "sql", "db", "sqlite"}

\* str::to_lowercase / str::to_uppercase on the strings of the model
to_lowercase(x) ==
    CASE x = "JPG" -> "jpg" [] x = "Jpg" -> "jpg" [] x = "PDF" -> "pdf"
      [] x = "XYZ" -> "xyz" [] OTHER -> x

to_uppercase(x) ==
    CASE x = "jpg" -> "JPG" [] x = "Jpg" -> "JPG" [] x = "pdf" -> "PDF"
      [] x = "xyz" -> "XYZ" [] x = "no_extension" -> "NO_EXTENSION" [] OTHER -> x

\* Classifier::classify followed by Category::folder_name
classify(extension) ==
    IF extension = None THEN "Other"
    ELSE LET e == to_lowercase(extension)
         IN  CASE e \in ImagesExt -> "Images"
               [] e \in DocumentsExt -> "Documents"
               [] e \in VideosExt -> "Videos"
               [] e \in AudioExt -> "Audio"
               [] e \in ArchivesExt -> "Archives"
               [] e \in CodeExt -> "Code"
               [] e \in DataExt -> "Data"
               [] OTHER -> "Other"

\* Path::extension, lowercased, of the file names of the model
extension_of(name) ==
    CASE name = "photo.jpg" -> "jpg"
      [] name = "report.pdf" -> "pdf"
      [] OTHER -> None

\* metadata.rs is_exif_supported
is_exif_supported(name) ==
    extension_of(name) \in {"jpg", "jpeg", "tiff", "tif", "heic", "heif"}

\* format!("{:02}", month)
TwoDigits(n) ==
    CASE n = 1 -> "01" [] n = 2 -> "02" [] n = 3 -> "03" [] n = 4 -> "04"
      [] n = 5 -> "05" [] n = 6 -> "06" [] n = 7 -> "07" [] n = 8 -> "08"
      [] n = 9 -> "09" [] n = 10 -> "10" [] n = 11 -> "11" [] n = 12 -> "12"

\* datetime.year().to_string()
YearString(y) == CASE y = 2023 -> "2023" [] y = 2024 -> "2024"

\* The components a path string contributes when joined: "." and "" add none.
Components(parts) == SelectSeq(parts, LAMBDA c : c # "." /\ c # "")

PlanFile(dir, name, modified, exif) ==
    [path |-> dir \o <<name>>, name |-> name, extension |-> extension_of(name),
     size |-> 1, modified |-> modified, exif |-> exif]

modified_folder(file) == <<YearString(file.modified.year), TwoDigits(file.modified.month)>>

\* The `match mode` of plan_moves: Ok(destination), or Err when the file is
\* skipped (`continue`).
destination_for(file, mode) ==
    CASE mode = "ByType" -> Ok(<<classify(file.extension)>> \o <<file.name>>)
      [] mode = "ByDate" -> Ok(modified_folder(file) \o <<file.name>>)
      [] mode = "ByExtension" ->
            Ok(<<to_uppercase(IF file.extension = None THEN "no_extension"
                              ELSE file.extension)>> \o <<file.name>>)
      [] mode = "ByCamera" ->
            IF ~is_exif_supported(file.name) THEN Err
            ELSE Ok(<<IF file.exif.camera = None THEN "Unknown Camera"
                      ELSE file.exif.camera>> \o <<file.name>>)
      [] mode = "ByDateTaken" ->
            IF ~is_exif_supported(file.name) THEN Ok(modified_folder(file) \o <<file.name>>)
            ELSE Ok((IF file.exif.taken = <<>> THEN modified_folder(file)
                     ELSE file.exif.taken) \o <<file.name>>)

\* organizer.rs plan_moves: a file already at its destination gets no move
RECURSIVE plan_moves(_, _)
plan_moves(files, mode) ==
    IF files = <<>> THEN <<>>
    ELSE LET file == Head(files)
             destination == destination_for(file, mode)
             rest == plan_moves(Tail(files), mode)
         IN  IF ~destination.ok THEN rest
             ELSE IF file.path # destination.value
                  THEN <<[from |-> file.path, to |-> destination.value, size |-> file.size]>>
                           \o rest
                  ELSE rest


\* ------------------------------------------------------------- config.rs
Rule(name, pattern, destination, priority) ==
    [name |-> name, pattern |-> pattern, destination |-> destination, priority |-> priority]

\* Rule::matches: glob::Pattern on the patterns of the model; a pattern that
\* does not compile matches nothing.
matches(rule, filename) ==
    CASE rule.pattern = "*" -> TRUE
      [] rule.pattern = "*.pdf" -> extension_of(filename) = "pdf"
      [] OTHER -> FALSE

\* Rule::get_destination: the placeholders replaced, then
\* base_path.join(dest).join(filename)
get_destination(rule, filename, ext, now) ==
    LET subst(c) == CASE c = "{year}" -> YearString(now.year)
                      [] c = "{month}" -> TwoDigits(now.month)
                      [] c = "{ext}" -> (IF ext = None THEN "unknown" ELSE ext)
                      [] OTHER -> c
    IN  Components([i \in 1..Len(rule.destination) |-> subst(rule.destination[i])]) \o <<filename>>

\* The rules in the order of their declaration.
get_sorted_rules_declared(rules) == rules

\* Vec::sort_by(|a, b| b.priority.cmp(&a.priority)): stable, highest first
RECURSIVE get_sorted_rules(_)
get_sorted_rules(rules) ==
    IF rules = <<>> THEN <<>>
    ELSE LET sorted == get_sorted_rules(SubSeq(rules, 1, Len(rules) - 1))
             r == rules[Len(rules)]
             before == SelectSeq(sorted, LAMBDA x : x.priority >= r.priority)
             after == SelectSeq(sorted, LAMBDA x : x.priority < r.priority)
         IN  before \o <<r>> \o after

\* Config::find_matching_rule
find_matching_rule(rules, filename) ==
    LET hits == SelectSeq(get_sorted_rules(rules), LAMBDA r : matches(r, filename))
    IN  IF hits = <<>> THEN Err ELSE Ok(Head(hits))

\* ------------------------------------------------------------ input space
PlanNames == {"photo.jpg", "report.pdf", "Makefile"}
PlanDirs == {<<>>, <<"Images">>, <<"PDF">>, <<"2024", "03">>}
Modifieds == {[year |-> 2024, month |-> 3], [year |-> 2023, month |-> 11]}
Exifs == {[camera |-> None, taken |-> <<>>], [camera |-> "Canon", taken |-> <<"2024", "03">>]}

PlanFiles == {PlanFile(d, n, m, e) : d \in PlanDirs, n \in PlanNames, m \in Modifieds, e \in Exifs}
\* Watch mode is not recursive: its events are for files of the base directory.
WatchFiles == {PlanFile(<<>>, n, [year |-> 2024, month |-> 3], e) : n \in PlanNames, e \in Exifs}

RuleSet ==
    {Rule("r", pat, dst, pri) :
        pat \in {"*", "*.pdf"}, dst \in {<<".">>, <<"Docs">>, <<"{ext}">>}, pri \in {0, 1}}

OrganizeInputs ==
    {[kind |-> "organize", files |-> fl, mode |-> m, execute |-> ex, dry_run |-> dr] :
        fl \in BoundedSeq(PlanFiles, MaxPlanFiles), m \in {"ByType", "ByDate", "ByExtension"},
        ex \in BOOLEAN, dr \in BOOLEAN}

WatchInputs ==
    {[kind |-> "watch", file |-> f, mode |-> m, rules |-> rs, auto_execute |-> au] :
        f \in WatchFiles, m \in {"ByType", "ByCamera", "ByDateTaken"},
        rs \in BoundedSeq(RuleSet, MaxRules), au \in BOOLEAN}

InitPlan ==
    /\ input \in OrganizeInputs \cup WatchInputs
    /\ output = [moves |-> <<>>, handed |-> FALSE]
    /\ pc = "plan"
    /\ fs = MkFs({}, {})
    /\ ro = {}
    /\ neat_ok = TRUE
    /\ history = <<>>
    /\ moves = <<>>
    /\ idx = 0
    /\ result = OrganizeResultDefault
    /\ logger = <<>>
    /\ batch = NoBatch
    /\ mem = <<>>
    /\ undone = 0
    /\ errors = 0
    /\ performed = <<>>
    /\ replayed = <<>>
    /\ fs0 = fs
    /\ hist0 = history
    /\ calls = <<>>

planFrame == <<fs, ro, neat_ok, history, cmdVars, calls, input>>

\* commands/organize.rs organize_single_path from the scan on, without
\* --template and --copy: the moves that reach execute_moves.
organize_plan ==
    /\ pc = "plan"
    /\ input.kind = "organize"
    /\ LET planned == plan_moves(input.files, input.mode)
       IN  output' = [moves |-> planned,
                      handed |-> planned # <<>> /\ input.execute /\ ~input.dry_run]
    /\ pc' = "planned"
    /\ UNCHANGED planFrame

\* watcher.rs watch_directory: one event for an existing, visible regular file
watch_event ==
    /\ pc = "plan"
    /\ input.kind = "watch"
    /\ LET rule == find_matching_rule(input.rules, input.file.name)
           planned ==
               IF rule.ok
               THEN <<[from |-> input.file.path,
                       to |-> get_destination(rule.value, input.file.name,
                                              input.file.extension, input.file.modified),
                       size |-> input.file.size]>>
               ELSE plan_moves(<<input.file>>, input.mode)
       IN  output' = [moves |-> planned, handed |-> planned # <<>> /\ input.auto_execute]
    /\ pc' = "planned"
    /\ UNCHANGED planFrame

NextPlan == organize_plan \/ watch_event

SpecPlan == InitPlan /\ [][NextPlan]_vars

\* C10: every PlannedMove that reaches execute_moves, from plan_moves or from
\* a matching rule in watch mode, has a source different from its destination.
C10_NoSelfMove ==
    (pc = "planned" /\ output.handed) =>
        \A i \in 1..Len(output.moves) : output.moves[i].from # output.moves[i].to


\* C20: find_matching_rule returns a rule exactly when some rule matches the
\* file name; the rule returned matches, no matching rule has a greater
\* priority, and among the matching rules of that priority it is the one
\* declared first.  Watch mode plans with the rule returned, and with
\* plan_moves when none is.
C20_FirstMatchByPriority ==
    (pc = "planned" /\ input.kind = "watch") =>
        LET rules == input.rules
            name == input.file.name
            hits == {i \in 1..Len(rules) : matches(rules[i], name)}
            found == find_matching_rule(rules, name)
        IN  /\ found.ok <=> hits # {}
            /\ found.ok =>
                  /\ \E i \in hits :
                        /\ rules[i] = found.value
                        /\ \A j \in hits : rules[j].priority <= rules[i].priority
                        /\ \A j \in hits : (j < i) => rules[j].priority < rules[i].priority
                  /\ output.moves =
                        <<[from |-> input.file.path,
                           to |-> get_destination(found.value, name, input.file.extension,
                                                  input.file.modified),
                           size |-> input.file.size]>>
            /\ ~found.ok => output.moves = plan_moves(<<input.file>>, input.mode)

\* C20 witness: report.pdf met a rule "*" of priority 0 declared before a rule
\* "*.pdf" of priority 1 with another destination, and was planned with the
\* second.
C20_Witness ==
    /\ pc = "planned"
    /\ input.kind = "watch"
    /\ input.file.name = "report.pdf"
    /\ Len(input.rules) = 2
    /\ input.rules[1].pattern = "*" /\ input.rules[1].priority = 0
    /\ input.rules[2].pattern = "*.pdf" /\ input.rules[2].priority = 1
    /\ input.rules[1].destination = <<"Docs">> /\ input.rules[2].destination = <<"{ext}">>
    /\ output.moves[1].to = <<"pdf", "report.pdf">>

\* ================================================ loading the History
\* ~/.neat/history.json as a sequence of tokens: "[" and "]" around the batch
\* list, "," between batches, "m" and "d" for the JSON objects of the batches
\* OldMoves and OldBatch.
Tokens == {"[", "]", ",", "m", "d"}

BatchOf(tok) == IF tok = "m" THEN OldMoves ELSE OldBatch
TokenOf(b) == IF b = OldMoves THEN "m" ELSE "d"

\* serde_json::from_reader on the batch list: batch ("," batch)*
RECURSIVE parse_items(_)
parse_items(toks) ==
    IF toks = <<>> THEN Err
    ELSE IF Head(toks) \notin {"m", "d"} THEN Err
    ELSE IF Len(toks) = 1 THEN Ok(<<BatchOf(Head(toks))>>)
    ELSE IF toks[2] # "," THEN Err
    ELSE LET r == parse_items(SubSeq(toks, 3, Len(toks)))
         IN  IF r.ok THEN Ok(<<BatchOf(Head(toks))>> \o r.value) ELSE Err

\* serde_json::from_reader::<History>
from_reader(content) ==
    IF Len(content) < 2 \/ content[1] # "[" \/ content[Len(content)] # "]" THEN Err
    ELSE IF Len(content) = 2 THEN Ok(<<>>)
    ELSE parse_items(SubSeq(content, 2, Len(content) - 1))

\* serde_json::to_writer_pretty of a History
RECURSIVE write_items(_)
write_items(batches) ==
    IF batches = <<>> THEN <<>>
    ELSE IF Len(batches) = 1 THEN <<TokenOf(batches[1])>>
    ELSE <<TokenOf(batches[1]), ",">> \o write_items(Tail(batches))

to_writer(batches) == <<"[">> \o write_items(batches) \o <<"]">>

\* The history file: whether it exists, whether it can be opened for reading
\* and for writing, and its content.
HistoryFile(ex, readable, writable, content) ==
    [exists |-> ex, readable |-> readable, writable |-> writable, content |-> content]

\* History::load.  dir_ok is whether history_path succeeds (the home
\* directory is known and ~/.neat can be created).  The result, and the file
\* load leaves behind.
History_load_strict(file, dir_ok) ==
    IF ~dir_ok THEN [ok |-> FALSE, value |-> <<>>, file |-> file]
    ELSE IF ~file.exists THEN [ok |-> TRUE, value |-> <<>>, file |-> file]
    ELSE IF ~file.readable THEN [ok |-> TRUE, value |-> <<>>, file |-> file]
    ELSE LET parsed == from_reader(file.content)
         IN  IF parsed.ok THEN [ok |-> TRUE, value |-> parsed.value, file |-> file]
             ELSE [ok |-> FALSE, value |-> <<>>, file |-> file]

History_load(file, dir_ok) ==
    IF ~dir_ok THEN [ok |-> FALSE, value |-> <<>>, file |-> file]
    ELSE IF ~file.exists THEN [ok |-> TRUE, value |-> <<>>, file |-> file]
    ELSE IF ~file.readable THEN [ok |-> TRUE, value |-> <<>>, file |-> file]
    ELSE LET parsed == from_reader(file.content)
         IN  IF parsed.ok THEN [ok |-> TRUE, value |-> parsed.value, file |-> file]
             ELSE \* warning; fs::remove_file(&path)
                  [ok |-> TRUE, value |-> <<>>,
                   file |-> HistoryFile(FALSE, TRUE, TRUE, <<>>)]

\* History::save: File::create truncates the file or creates it
History_save(batches, file, dir_ok) ==
    IF ~dir_ok \/ (file.exists /\ ~file.writable) THEN [ok |-> FALSE, file |-> file]
    ELSE [ok |-> TRUE, file |-> HistoryFile(TRUE, file.readable, file.writable,
                                             to_writer(batches))]

HistoryFiles ==
    {HistoryFile(FALSE, TRUE, TRUE, <<>>)}
        \cup {HistoryFile(TRUE, r, w, c) :
                 r \in BOOLEAN, w \in BOOLEAN, c \in BoundedSeq(Tokens, MaxTokens)}

InitLoad ==
    /\ input \in [file : HistoryFiles, dir_ok : BOOLEAN]
    /\ output = [op |-> "none", ok |-> TRUE, value |-> <<>>, file |-> input.file]
    /\ pc = "load"
    /\ fs = MkFs({}, {})
    /\ ro = {}
    /\ neat_ok = TRUE
    /\ history = <<>>
    /\ moves = <<>>
    /\ idx = 0
    /\ result = OrganizeResultDefault
    /\ logger = <<>>
    /\ batch = NoBatch
    /\ mem = <<>>
    /\ undone = 0
    /\ errors = 0
    /\ performed = <<>>
    /\ replayed = <<>>
    /\ fs0 = fs
    /\ hist0 = history
    /\ calls = <<>>

loadFrame == <<fs, ro, neat_ok, history, cmdVars, calls, input>>

\* History::load() on the file
history_load ==
    /\ pc = "load"
    /\ LET r == History_load(input.file, input.dir_ok)
       IN  output' = [op |-> "load", ok |-> r.ok, value |-> r.value, file |-> r.file]
    /\ pc' = "loaded"
    /\ UNCHANGED loadFrame

\* Logger::save of a command that logged the operations of OldBatch:
\* History::load()?, add_batch, History::save()?
logger_save ==
    /\ pc = "load"
    /\ LET r == History_load(input.file, input.dir_ok)
           added == add_batch(r.value, OldBatch.command, OldBatch.operations)
           w == History_save(added, r.file, input.dir_ok)
       IN  output' = IF ~r.ok
                     THEN [op |-> "save", ok |-> FALSE, value |-> <<>>, file |-> r.file]
                     ELSE [op |-> "save", ok |-> w.ok, value |-> added, file |-> w.file]
    /\ pc' = "loaded"
    /\ UNCHANGED loadFrame

NextLoad == history_load \/ logger_save

SpecLoad == InitLoad /\ [][NextLoad]_vars

\* C15: History::load returns an error only when history_path fails; a file
\* that cannot be opened or whose content does not parse gives the empty
\* History, and a file that parses gives its batches.
C15_LoadNeverFailsOnContent ==
    (pc = "loaded" /\ output.op = "load") =>
        /\ output.ok = input.dir_ok
        /\ (input.dir_ok /\ input.file.exists
              /\ (~input.file.readable \/ ~from_reader(input.file.content).ok))
             => output.value = <<>>
        /\ (input.dir_ok /\ input.file.exists /\ input.file.readable
              /\ from_reader(input.file.content).ok)
             => to_writer(output.value) = input.file.content

\* C15 witness: load ran on a readable file whose content starts like a batch
\* list and does not parse, returned the empty History and removed the file.
C15_Witness ==
    /\ pc = "loaded"
    /\ output.op = "load"
    /\ input.dir_ok
    /\ input.file.exists /\ input.file.readable
    /\ Len(input.file.content) >= 3
    /\ input.file.content[1] = "[" /\ input.file.content[2] = "m"
    /\ ~from_reader(input.file.content).ok
    /\ output.ok /\ output.value = <<>>
    /\ ~output.file.exists


\* ================================================ the organize command
\* Paths of the planner have strings as components, paths of the filesystem
\* have names (a string, or a string and a conflict suffix).
ToFs(path) == [i \in 1..Len(path) |-> <<path[i]>>]

OrgNames == {"photo.jpg", "report.pdf", "Makefile"}

\* The base directory with some of the files, and the folder Images holding
\* a photo.jpg already or not.
OrgLayouts ==
    {MkFs({ToFs(<<n>>) : n \in top} \cup held, IF held = {} THEN {} ELSE {ToFs(<<"Images">>)}) :
        top \in SUBSET OrgNames, held \in {{}, {ToFs(<<"Images", "photo.jpg">>)}}}

\* scan_directory with max_depth 1 and no filter: the regular files directly
\* in the base directory, in the order the directory walk gives them.
scan_directory(f) ==
    LET found == {p \in Files(f) : Len(p) = 1 /\ Len(p[1]) = 1}
        infos == {PlanFile(<<>>, p[1][1], [year |-> 2024, month |-> 3],
                           [camera |-> None, taken |-> <<>>]) : p \in found}
    IN  {order \in [1..Cardinality(infos) -> infos] :
            \A i, j \in 1..Cardinality(infos) : i # j => order[i] # order[j]}

\* `if execute && !dry_run`
organize_executes_without_dry_run(execute, dry_run) == execute

organize_executes(execute, dry_run) == execute /\ ~dry_run

InitOrganize ==
    /\ fs \in OrgLayouts
    /\ ro \in ReadOnlyChoices
    /\ neat_ok \in BOOLEAN
    /\ history \in HistoryChoices
    /\ input \in [mode : {"ByType", "ByDate", "ByExtension"},
                  execute : BOOLEAN, dry_run : BOOLEAN]
    /\ output = [moves |-> <<>>, handed |-> FALSE]
    /\ pc = "organize"
    /\ moves = <<>>
    /\ idx = 0
    /\ result = OrganizeResultDefault
    /\ logger = <<>>
    /\ batch = NoBatch
    /\ mem = <<>>
    /\ undone = 0
    /\ errors = 0
    /\ performed = <<>>
    /\ replayed = <<>>
    /\ fs0 = fs
    /\ hist0 = history
    /\ calls = <<>>

\* commands/organize.rs organize_single_path without --template and --copy,
\* up to the call of execute_moves or of preview_moves.
organize_run ==
    /\ pc = "organize"
    /\ \E files \in scan_directory(fs) :
         LET planned == plan_moves(files, input.mode)
             handed == planned # <<>> /\ organize_executes(input.execute, input.dry_run)
         IN  /\ output' = [moves |-> planned, handed |-> handed]
             /\ IF handed
                THEN /\ moves' = [i \in 1..Len(planned) |->
                                     [from |-> ToFs(planned[i].from),
                                      to |-> ToFs(planned[i].to),
                                      size |-> planned[i].size]]
                     /\ idx' = 1
                     /\ pc' = "exec"
                     /\ calls' = calls
                ELSE /\ pc' = "idle"
                     /\ calls' = Append(calls, Call("organize", "Ok", Len(planned),
                                    OrganizeResultDefault, <<>>, fs, fs, history, history))
                     /\ UNCHANGED <<moves, idx>>
    /\ result' = OrganizeResultDefault
    /\ logger' = <<>>
    /\ performed' = <<>>
    /\ fs0' = fs
    /\ hist0' = history
    /\ UNCHANGED <<fs, ro, neat_ok, history, batch, mem, undone, errors, replayed, input>>

NextOrganize == organize_run \/ execute_moves_step \/ execute_moves_save

SpecOrganize == InitOrganize /\ [][NextOrganize]_vars

\* C16: unless --execute is given without --dry-run, an organize run leaves
\* every file at its path, creates no directory and leaves the History as it
\* was; with the two flags so, a run with planned moves does execute them.
C16_PreviewChangesNothing ==
    /\ ~(input.execute /\ ~input.dry_run) =>
          /\ fs = fs0
          /\ history = hist0
          /\ pc \in {"organize", "idle"}
          /\ ~output.handed
    /\ (input.execute /\ ~input.dry_run /\ pc # "organize" /\ output.moves # <<>>) =>
          output.handed

\* C16 witness: organize ran with --execute and --dry-run on a directory with
\* files to move, planned the moves and returned with nothing changed.
C16_Witness ==
    /\ pc = "idle"
    /\ input.execute /\ input.dry_run
    /\ Len(output.moves) = 2
    /\ calls # <<>>
    /\ Last(calls).cmd = "organize"
    /\ fs = fs0


\* ===================================================== similar images
\* A perceptual hash is a sequence of HashBits bits; ImageHash::dist is the
\* number of positions in which two hashes differ.
ImageHashes == [1..HashBits -> {0, 1}]

dist(h1, h2) == Cardinality({b \in 1..HashBits : h1[b] # h2[b]})

\* An input file: its path, whether its extension is one is_image_supported
\* accepts, and the hash of its picture, Err when image::open fails.
ImageFile(path, supported, hash) == [path |-> path, supported |-> supported, hash |-> hash]

is_image_supported(file) == file.supported

\* The loop `for j in (i + 1)..hashes.len()` from index j on: the members
\* collected and the set `used`.
RECURSIVE similar_to_unmarked(_, _, _, _, _, _)
similar_to_unmarked(hashes, i, j, used, similar, threshold) ==
    IF j > Len(hashes) THEN [similar |-> similar, used |-> used]
    ELSE IF j \in used \/ ~hashes[j].hash.ok
         THEN similar_to_unmarked(hashes, i, j + 1, used, similar, threshold)
    ELSE LET distance == dist(hashes[i].hash.value, hashes[j].hash.value)
         IN  IF distance <= threshold
             THEN similar_to_unmarked(hashes, i, j + 1, used,
                      Append(similar, [file |-> hashes[j], distance |-> distance]), threshold)
             ELSE similar_to_unmarked(hashes, i, j + 1, used, similar, threshold)

RECURSIVE similar_to(_, _, _, _, _, _)
similar_to(hashes, i, j, used, similar, threshold) ==
    IF j > Len(hashes) THEN [similar |-> similar, used |-> used]
    ELSE IF j \in used \/ ~hashes[j].hash.ok
         THEN similar_to(hashes, i, j + 1, used, similar, threshold)
    ELSE LET distance == dist(hashes[i].hash.value, hashes[j].hash.value)
         IN  IF distance <= threshold
             THEN similar_to(hashes, i, j + 1, used \cup {j},
                      Append(similar, [file |-> hashes[j], distance |-> distance]), threshold)
             ELSE similar_to(hashes, i, j + 1, used, similar, threshold)

SimilarGroup(representative, similar) ==
    [representative |-> representative, similar |-> similar]

\* The loop `for i in 0..hashes.len()` from index i on.
RECURSIVE group_from(_, _, _, _, _)
group_from(hashes, i, used, groups, threshold) ==
    IF i > Len(hashes) THEN groups
    ELSE IF i \in used \/ ~hashes[i].hash.ok
         THEN group_from(hashes, i + 1, used, groups, threshold)
    ELSE LET r == similar_to(hashes, i, i + 1, used, <<>>, threshold)
         IN  IF r.similar # <<>>
             THEN group_from(hashes, i + 1, r.used \cup {i},
                             Append(groups, SimilarGroup(hashes[i], r.similar)), threshold)
             ELSE group_from(hashes, i + 1, r.used, groups, threshold)

find_similar_images(files, threshold) ==
    LET images == SelectSeq(files, is_image_supported)
    IN  IF Len(images) < 2 THEN <<>>
        ELSE group_from(images, 1, {}, <<>>, threshold)

InitSimilar ==
    /\ \E n \in 0..MaxImages :
         \E sup \in [1..n -> BOOLEAN],
            hs \in [1..n -> {Err} \cup {Ok(h) : h \in ImageHashes}],
            threshold \in 0..HashBits :
            input = [files |-> [i \in 1..n |-> ImageFile(i, sup[i], hs[i])],
                     threshold |-> threshold]
    /\ output = [done |-> FALSE, groups |-> <<>>]
    /\ pc = "similar"
    /\ fs = MkFs({}, {})
    /\ ro = {}
    /\ neat_ok = TRUE
    /\ history = <<>>
    /\ moves = <<>>
    /\ idx = 0
    /\ result = OrganizeResultDefault
    /\ logger = <<>>
    /\ batch = NoBatch
    /\ mem = <<>>
    /\ undone = 0
    /\ errors = 0
    /\ performed = <<>>
    /\ replayed = <<>>
    /\ fs0 = fs
    /\ hist0 = history
    /\ calls = <<>>

find_similar_images_run ==
    /\ pc = "similar"
    /\ output' = [done |-> TRUE, groups |-> find_similar_images(input.files, input.threshold)]
    /\ pc' = "grouped"
    /\ UNCHANGED <<fs, ro, neat_ok, history, cmdVars, calls, input>>

NextSimilar == find_similar_images_run

SpecSimilar == InitSimilar /\ [][NextSimilar]_vars

\* The paths a group holds: its representative, then its members.
GroupPaths(g) == <<g.representative.path>> \o [k \in 1..Len(g.similar) |-> g.similar[k].file.path]

\* C17: in the groups find_similar_images returns, no image is in two groups
\* or twice in one, as representative or as member, and each member is within
\* the threshold of its group's representative, at the distance recorded.
C17_ImageInAtMostOneGroup ==
    pc = "grouped" =>
        /\ \A a, b \in 1..Len(output.groups) :
              \A x \in 1..Len(GroupPaths(output.groups[a])),
                 y \in 1..Len(GroupPaths(output.groups[b])) :
                  (GroupPaths(output.groups[a])[x] = GroupPaths(output.groups[b])[y])
                      => (a = b /\ x = y)
        /\ \A a \in 1..Len(output.groups) :
              \A k \in 1..Len(output.groups[a].similar) :
                  LET m == output.groups[a].similar[k]
                  IN  /\ m.distance <= input.threshold
                      /\ m.distance = dist(output.groups[a].representative.hash.value,
                                           m.file.hash.value)

\* C17 witness: three images, the second within the threshold of the first
\* and of the third, the third not within the threshold of the first: one
\* group, of the first and the second, and the third in no group.
C17_Witness ==
    /\ pc = "grouped"
    /\ Len(input.files) = 3
    /\ \A i \in 1..3 : input.files[i].supported /\ input.files[i].hash.ok
    /\ dist(input.files[1].hash.value, input.files[2].hash.value) <= input.threshold
    /\ dist(input.files[2].hash.value, input.files[3].hash.value) <= input.threshold
    /\ dist(input.files[1].hash.value, input.files[3].hash.value) > input.threshold
    /\ Len(output.groups) = 1
    /\ GroupPaths(output.groups[1]) = <<1, 2>>


\* ================================== find_duplicates, worker by worker
\* core/duplicates.rs find_duplicates with the closures of its two par_iter
\* calls as tasks that interleave.  A task of step 2 hashes its file, locks
\* by_quick_hash, pushes and unlocks; a task of step 4 compares the files of
\* its candidate group, locks duplicates, extends and unlocks.  output holds
\* the state the tasks share: task (the position of each task), local (what a
\* task computed or read), lock (the tasks holding the guard of the Mutex),
\* by_quick_hash (hash to bucket) and duplicates.
ParContents == {<<0>>, <<0, 0>>, <<0, 1>>}

\* Mutex::lock returns when no other guard is alive.
can_lock_always(lock) == TRUE

can_lock(lock) == lock = {}

\* map.entry(hash).or_default(): the bucket of the key, empty when absent
entry_or_default(map, key) == IF key \in DOMAIN map THEN map[key] ELSE <<>>

\* the map with the bucket of the key replaced
insert(map, key, bucket) == [k \in DOMAIN map \cup {key} |-> IF k = key THEN bucket ELSE map[k]]

Shared(task, local, lock, map, duplicates) ==
    [task |-> task, local |-> local, lock |-> lock, by_quick_hash |-> map,
     duplicates |-> duplicates]

FileAt(path) == input.files[path]

AllDone == \A t \in DOMAIN output.task : output.task[t] = "done"

InitPar ==
    /\ \E n \in 0..MaxParFiles, fam \in {"injective", "constant"} :
         \E cs \in [1..n -> ParContents], bad \in 0..n :
            input = [files |-> [i \in 1..n |-> FileInfo(i, cs[i], i # bad)], fam |-> fam]
    /\ output = Shared(<<>>, <<>>, {}, <<>>, {})
    /\ pc = "par_start"
    /\ fs = MkFs({}, {})
    /\ ro = {}
    /\ neat_ok = TRUE
    /\ history = <<>>
    /\ moves = <<>>
    /\ idx = 0
    /\ result = OrganizeResultDefault
    /\ logger = <<>>
    /\ batch = NoBatch
    /\ mem = <<>>
    /\ undone = 0
    /\ errors = 0
    /\ performed = <<>>
    /\ replayed = <<>>
    /\ fs0 = fs
    /\ hist0 = history
    /\ calls = <<>>

parFrame == <<fs, ro, neat_ok, history, cmdVars, calls, input>>

\* Steps 1 and the start of step 2: the early returns, files_flat, one task
\* for each of its files.
par_start ==
    /\ pc = "par_start"
    /\ LET files_flat == potential_dups(input.files)
       IN  IF input.files = <<>> \/ files_flat = {}
           THEN /\ pc' = "par_done"
                /\ output' = output
           ELSE /\ pc' = "par_hash"
                /\ output' = [output EXCEPT !.task = [t \in files_flat |-> "start"],
                                            !.local = [t \in files_flat |-> <<>>]]
    /\ UNCHANGED parFrame

\* quick_hash_4kb(&file.path), outside the lock
par_hash_compute(t) ==
    /\ pc = "par_hash"
    /\ output.task[t] = "start"
    /\ LET hash == quick_hash_4kb(input.fam, FileAt(t))
       IN  output' = IF hash.ok
                     THEN [output EXCEPT !.task[t] = "hashed", !.local[t] = hash.value]
                     ELSE [output EXCEPT !.task[t] = "done"]
    /\ UNCHANGED <<pc, parFrame>>

\* by_quick_hash.lock().unwrap(); map.entry(hash).or_default()
par_hash_lock(t) ==
    /\ pc = "par_hash"
    /\ output.task[t] = "hashed"
    /\ can_lock(output.lock)
    /\ output' = [output EXCEPT
                     !.task[t] = "locked",
                     !.lock = @ \cup {t},
                     !.local[t] = [key |-> output.local[t],
                                   bucket |-> entry_or_default(output.by_quick_hash,
                                                               output.local[t])]]
    /\ UNCHANGED <<pc, parFrame>>

\* .push(*file); the guard is dropped
par_hash_push(t) ==
    /\ pc = "par_hash"
    /\ output.task[t] = "locked"
    /\ output' = [output EXCEPT
                     !.task[t] = "done",
                     !.lock = @ \ {t},
                     !.by_quick_hash = insert(@, output.local[t].key,
                                              Append(output.local[t].bucket, FileAt(t)))]
    /\ UNCHANGED <<pc, parFrame>>

\* Step 3: into_inner, candidates, the early return; one task for each
\* candidate group.
par_hash_join ==
    /\ pc = "par_hash"
    /\ AllDone
    /\ LET candidates == {k \in DOMAIN output.by_quick_hash :
                              Len(output.by_quick_hash[k]) > 1}
       IN  IF candidates = {}
           THEN /\ pc' = "par_done"
                /\ output' = output
           ELSE /\ pc' = "par_verify"
                /\ output' = [output EXCEPT !.task = [k \in candidates |-> "start"],
                                            !.local = [k \in candidates |-> {}]]
    /\ UNCHANGED parFrame

\* find_duplicates_in_group(group), outside the lock
par_verify_compute(k) ==
    /\ pc = "par_verify"
    /\ output.task[k] = "start"
    /\ LET groups == {DuplicateGroup(Hash(input.fam, g[1].content), g) :
                         g \in find_duplicates_in_group(output.by_quick_hash[k])}
       IN  output' = [output EXCEPT !.task[k] = "compared", !.local[k] = groups]
    /\ UNCHANGED <<pc, parFrame>>

\* duplicates.lock().unwrap()
par_verify_lock(k) ==
    /\ pc = "par_verify"
    /\ output.task[k] = "compared"
    /\ can_lock(output.lock)
    /\ output' = [output EXCEPT
                     !.task[k] = "locked",
                     !.lock = @ \cup {k},
                     !.local[k] = [groups |-> output.local[k], seen |-> output.duplicates]]
    /\ UNCHANGED <<pc, parFrame>>

\* dups.extend(groups); the guard is dropped
par_verify_extend(k) ==
    /\ pc = "par_verify"
    /\ output.task[k] = "locked"
    /\ output' = [output EXCEPT
                     !.task[k] = "done",
                     !.lock = @ \ {k},
                     !.duplicates = output.local[k].seen \cup output.local[k].groups]
    /\ UNCHANGED <<pc, parFrame>>

\* Ok(duplicates.into_inner().unwrap())
par_verify_join ==
    /\ pc = "par_verify"
    /\ AllDone
    /\ pc' = "par_done"
    /\ UNCHANGED <<output, parFrame>>

NextPar ==
    \/ par_start
    \/ \E t \in DOMAIN output.task : par_hash_compute(t)
    \/ \E t \in DOMAIN output.task : par_hash_lock(t)
    \/ \E t \in DOMAIN output.task : par_hash_push(t)
    \/ par_hash_join
    \/ \E k \in DOMAIN output.task : par_verify_compute(k)
    \/ \E k \in DOMAIN output.task : par_verify_lock(k)
    \/ \E k \in DOMAIN output.task : par_verify_extend(k)
    \/ par_verify_join

SpecPar == InitPar /\ [][NextPar]_vars

PathSets(groups) == {{g.files[i].path : i \in 1..Len(g.files)} : g \in groups}

Occurrences(bucket, path) == Cardinality({i \in 1..Len(bucket) : bucket[i].path = path})

\* C18: whatever the interleaving, a file whose task has pushed its quick
\* hash is once in the bucket of that hash and in no other, the groups of a
\* finished comparison task are in duplicates, and the groups returned, as
\* sets of paths, are those of a run on the same input without interleaving.
C18_NoLostUpdate ==
    /\ pc = "par_hash" =>
          \A t \in DOMAIN output.task :
              (output.task[t] = "done" /\ quick_hash_4kb(input.fam, FileAt(t)).ok) =>
                  \A k \in DOMAIN output.by_quick_hash :
                      Occurrences(output.by_quick_hash[k], t)
                          = IF k = quick_hash_4kb(input.fam, FileAt(t)).value THEN 1 ELSE 0
    /\ pc = "par_verify" =>
          \A k \in DOMAIN output.task :
              output.task[k] = "done" =>
                  {DuplicateGroup(Hash(input.fam, g[1].content), g) :
                      g \in find_duplicates_in_group(output.by_quick_hash[k])}
                          \subseteq output.duplicates
    /\ pc = "par_done" =>
          PathSets(output.duplicates)
              = PathSets(core_find_duplicates(input.files, input.files, input.fam))

\* C18 witness: the run ended with the groups of two comparison tasks, after
\* the task of a later file pushed its hash before the task of an earlier
\* file of the same bucket.
C18_Witness ==
    /\ pc = "par_done"
    /\ Cardinality(output.duplicates) = 2
    /\ \E k \in DOMAIN output.by_quick_hash :
          /\ Len(output.by_quick_hash[k]) >= 2
          /\ output.by_quick_hash[k][1].path > output.by_quick_hash[k][2].path


\* ========================================================= wasted_space
\* u64 arithmetic with the width scaled down to U64Bits bits.
U64Max == 2 ^ U64Bits - 1

\* The outcomes of `a * b` on u64: the product when it fits; when it does
\* not, a panic in a build with overflow checks and the wrapped product in a
\* build without.
u64_mul(a, b) ==
    IF a * b <= U64Max THEN {Ok(a * b)}
    ELSE {Err, Ok((a * b) % (U64Max + 1))}

\* DuplicateGroup::wasted_space on a group of `len` files and size `size`
wasted_space(size, len) ==
    IF len > 1 THEN u64_mul(size, len - 1) ELSE {Ok(0)}

InitWaste ==
    /\ input \in [size : 0..U64Max, len : 0..MaxGroupFiles]
    /\ output = [called |-> FALSE, ret |-> Ok(0)]
    /\ pc = "waste"
    /\ fs = MkFs({}, {})
    /\ ro = {}
    /\ neat_ok = TRUE
    /\ history = <<>>
    /\ moves = <<>>
    /\ idx = 0
    /\ result = OrganizeResultDefault
    /\ logger = <<>>
    /\ batch = NoBatch
    /\ mem = <<>>
    /\ undone = 0
    /\ errors = 0
    /\ performed = <<>>
    /\ replayed = <<>>
    /\ fs0 = fs
    /\ hist0 = history
    /\ calls = <<>>

wasted_space_run ==
    /\ pc = "waste"
    /\ \E ret \in wasted_space(input.size, input.len) :
         output' = [called |-> TRUE, ret |-> ret]
    /\ pc' = "wasted"
    /\ UNCHANGED <<fs, ro, neat_ok, history, cmdVars, calls, input>>

NextWaste == wasted_space_run

SpecWaste == InitWaste /\ [][NextWaste]_vars

\* C19: wasted_space of a group of k files of size s returns s * (k - 1) when
\* k >= 2 and 0 when k < 2.
C19_WastedSpace ==
    pc = "wasted" =>
        output.ret = Ok(IF input.len >= 2 THEN input.size * (input.len - 1) ELSE 0)

\* ------------------------------------------------- core/scanner.rs, filters.rs
\* Strings are sequences of tokens here, so that prefixes, suffixes, stems and
\* glob matches are computed and not assumed.

\* The state a specification of a pure function leaves untouched.
UnusedState ==
    /\ fs = MkFs({}, {})
    /\ ro = {}
    /\ neat_ok = TRUE
    /\ history = <<>>
    /\ moves = <<>>
    /\ idx = 0
    /\ result = OrganizeResultDefault
    /\ logger = <<>>
    /\ batch = NoBatch
    /\ mem = <<>>
    /\ undone = 0
    /\ errors = 0
    /\ performed = <<>>
    /\ replayed = <<>>
    /\ fs0 = fs
    /\ hist0 = history
    /\ calls = <<>>

\* Option<T>
Some(v) == [some |-> TRUE, value |-> v]
NoValue == [some |-> FALSE]

starts_with(s, p) == Len(p) <= Len(s) /\ SubSeq(s, 1, Len(p)) = p
ends_with(s, p) == Len(p) <= Len(s) /\ SubSeq(s, Len(s) - Len(p) + 1, Len(s)) = p
contains(s, p) == \E i \in 0..(Len(s) - Len(p)) : SubSeq(s, i + 1, i + Len(p)) = p

\* char::to_lowercase on the tokens of the model
lower(c) ==
    CASE c = "A" -> "a" [] c = "B" -> "b" [] c = "D" -> "d" [] c = "H" -> "h"
      [] c = "W" -> "w" [] OTHER -> c
str_to_lowercase(s) == [i \in 1..Len(s) |-> lower(s[i])]

\* The position of the last "." of a name, 0 if there is none
LastDot(name) ==
    IF \E i \in 1..Len(name) : name[i] = "."
    THEN CHOOSE i \in 1..Len(name) :
            name[i] = "." /\ \A j \in (i + 1)..Len(name) : name[j] # "."
    ELSE 0

\* Path::file_stem: the name up to its last ".", the whole name when it has no
\* "." or only a leading one
file_stem(name) ==
    IF LastDot(name) <= 1 THEN name ELSE SubSeq(name, 1, LastDot(name) - 1)

\* Path::extension: what follows the last ".", none in the cases above
path_extension(name) ==
    IF LastDot(name) <= 1 THEN NoValue
    ELSE Some(SubSeq(name, LastDot(name) + 1, Len(name)))

\* NameFilter::matches with case_insensitive set: startswith and endswith look
\* at the stem, contains looks at the whole name
NameFilter_matches(filter, filename) ==
    LET name == str_to_lowercase(filename)
        name_without_ext == file_stem(name)
    IN  /\ filter.startswith.some =>
              starts_with(name_without_ext, str_to_lowercase(filter.startswith.value))
        /\ filter.endswith.some =>
              ends_with(name_without_ext, str_to_lowercase(filter.endswith.value))
        /\ filter.contains.some =>
              contains(name, str_to_lowercase(filter.contains.value))

NameFilter_is_empty(filter) ==
    ~filter.startswith.some /\ ~filter.endswith.some /\ ~filter.contains.some

\* Regex::new and is_match for the patterns of the model: an optional "^"
\* followed by literals; an unclosed group does not compile.
matches_regex(filename, pattern) ==
    IF \E i \in 1..Len(pattern) : pattern[i] = "(" THEN Err
    ELSE IF pattern # <<>> /\ pattern[1] = "^"
         THEN Ok(starts_with(filename, Tail(pattern)))
         ELSE Ok(contains(filename, pattern))

\* mime_guess::from_path(path).first()
mime_guess(name) ==
    LET ext == path_extension(name)
    IN  IF ~ext.some THEN NoValue
        ELSE CASE str_to_lowercase(ext.value) = <<"txt">> -> Some(<<"text", "/", "plain">>)
               [] str_to_lowercase(ext.value) = <<"jpg">> -> Some(<<"image", "/", "jpeg">>)
               [] OTHER -> NoValue

matches_mime(name, mime_filter) ==
    LET guess == mime_guess(name)
    IN  IF guess.some
        THEN IF ends_with(mime_filter, <<"/", "*">>)
             THEN starts_with(guess.value, SubSeq(mime_filter, 1, Len(mime_filter) - 2))
             ELSE guess.value = mime_filter
        ELSE FALSE

\* glob::Pattern::new: an unclosed "[" is a pattern error
glob_new(p) == IF \E i \in 1..Len(p) : p[i] = "[" THEN Err ELSE Ok(p)

\* glob::Pattern::matches with the default options: "*" matches any run of
\* characters, separators included
RECURSIVE glob_matches(_, _)
glob_matches(pattern, s) ==
    IF pattern = <<>> THEN s = <<>>
    ELSE IF pattern[1] = "*"
         THEN \/ glob_matches(Tail(pattern), s)
              \/ s # <<>> /\ glob_matches(pattern, Tail(s))
         ELSE s # <<>> /\ s[1] = pattern[1] /\ glob_matches(Tail(pattern), Tail(s))

\* An entry of the walked tree: its directory below the root, name, file type,
\* size and modification time.
ScanEntry(dir, name, kind, size, modified) ==
    [dir |-> dir, name |-> name, kind |-> kind, size |-> size, modified |-> modified]

RootString == <<"r">>

RECURSIVE JoinPath(_)
JoinPath(parts) ==
    IF parts = <<>> THEN <<>> ELSE <<"/">> \o parts[1] \o JoinPath(Tail(parts))

\* entry.path(): the root, the directories, the name
entry_path(e) == RootString \o JoinPath(e.dir) \o <<"/">> \o e.name

\* entry.depth(): the number of components below the root
entry_depth(e) == Len(e.dir) + 1

ScanOptionsDefault ==
    [include_hidden |-> FALSE, max_depth |-> NoValue, follow_symlinks |-> FALSE,
     ignore_patterns |-> <<>>, min_size |-> NoValue, max_size |-> NoValue,
     after_date |-> NoValue, before_date |-> NoValue, name_startswith |-> NoValue,
     name_endswith |-> NoValue, name_contains |-> NoValue, regex_pattern |-> NoValue,
     mime_filter |-> NoValue]

Range(s) == {s[i] : i \in 1..Len(s)}

\* `file.size < min` rejects; a variant that also rejects the bound itself
below_min_exclusive(size, min) == size <= min

below_min(size, min) == size < min

\* The filter chain of scan_directory over the entries the walk yields; the
\* result is the set of the FileInfo values, each for one entry.
core_scan_directory(root_kind, tree, options) ==
    IF root_kind = "missing" THEN Err
    ELSE IF root_kind # "dir" THEN Err
    ELSE
    LET ignore_patterns ==
            {glob_new(p).value : p \in {q \in Range(options.ignore_patterns) : glob_new(q).ok}}
        walked == {e \in tree : options.max_depth.some => entry_depth(e) <= options.max_depth.value}
        files == {e \in walked : e.kind = "file"}
        visible == {e \in files : options.include_hidden \/ ~starts_with(e.name, <<".">>)}
        kept == {e \in visible :
                    ~\E pattern \in ignore_patterns :
                        glob_matches(pattern, e.name) \/ glob_matches(pattern, entry_path(e))}
        sized == {e \in kept :
                    /\ ~(options.min_size.some /\ below_min(e.size, options.min_size.value))
                    /\ ~(options.max_size.some /\ e.size > options.max_size.value)}
        dated == {e \in sized :
                    /\ ~(options.after_date.some /\ e.modified < options.after_date.value)
                    /\ ~(options.before_date.some /\ e.modified > options.before_date.value)}
        filter == [startswith |-> options.name_startswith, endswith |-> options.name_endswith,
                   contains |-> options.name_contains]
        named == {e \in dated : NameFilter_is_empty(filter) \/ NameFilter_matches(filter, e.name)}
        regexed == {e \in named :
                      options.regex_pattern.some =>
                          unwrap_or(matches_regex(e.name, options.regex_pattern.value), FALSE)}
        mimed == {e \in regexed :
                    options.mime_filter.some => matches_mime(e.name, options.mime_filter.value)}
    IN  Ok(mimed)

\* The trees of the model: files at depth 1 and 2 with sizes and times on both
\* sides of the bounds, a hidden file, a directory and a symbolic link.
ScanEntries ==
    {ScanEntry(<<>>, <<"a", ".", "txt">>, "file", 1, 1),
     ScanEntry(<<>>, <<".", "h">>, "file", 2, 2),
     ScanEntry(<<>>, <<"B", "a", ".", "jpg">>, "file", 3, 3),
     ScanEntry(<<>>, <<"d">>, "dir", 0, 2),
     ScanEntry(<<>>, <<"l">>, "symlink", 1, 2),
     ScanEntry(<<<<"d">>>>, <<"a", ".", "txt">>, "file", 2, 3),
     ScanEntry(<<<<"d">>>>, <<"B", "a">>, "file", 3, 2)}

ScanTrees ==
    {t \in SUBSET ScanEntries :
        /\ Cardinality({e \in t : e.kind = "file"}) <= MaxScanFiles
        /\ (\E e \in t : e.dir # <<>>) => ScanEntry(<<>>, <<"d">>, "dir", 0, 2) \in t}

ScanOptionChoices ==
    [include_hidden : BOOLEAN,
     max_depth : {NoValue, Some(0), Some(1), Some(2)},
     follow_symlinks : {FALSE},
     ignore_patterns : {<<>>, << <<"*", ".", "txt">> >>, << <<"[">>, <<"r", "/", "d", "/", "*">> >>},
     min_size : {NoValue, Some(2)},
     max_size : {NoValue, Some(2)},
     after_date : {NoValue, Some(2)},
     before_date : {NoValue, Some(2)},
     name_startswith : {NoValue, Some(<<"b">>)},
     name_endswith : {NoValue, Some(<<"A">>)},
     name_contains : {NoValue, Some(<<"txt">>)},
     regex_pattern : {NoValue, Some(<<"^", "a">>), Some(<<"(">>)},
     mime_filter : {NoValue, Some(<<"image", "/", "*">>), Some(<<"text", "/", "plain">>)}]

ActiveFilters(o) == {f \in DOMAIN o : o[f] # ScanOptionsDefault[f]}

InitScan ==
    /\ input \in {[root_kind |-> k, tree |-> t, options |-> o] :
                    k \in {"dir"}, t \in ScanTrees,
                    o \in {o \in ScanOptionChoices : Cardinality(ActiveFilters(o)) <= MaxActiveFilters}}
                 \cup {[root_kind |-> k, tree |-> {}, options |-> ScanOptionsDefault] :
                    k \in {"file", "missing"}}
    /\ output = [called |-> FALSE, ret |-> Err]
    /\ pc = "scan"
    /\ UnusedState

core_scan_directory_run ==
    /\ pc = "scan"
    /\ output' = [called |-> TRUE,
                  ret |-> core_scan_directory(input.root_kind, input.tree, input.options)]
    /\ pc' = "scanned"
    /\ UNCHANGED <<fs, ro, neat_ok, history, cmdVars, calls, input>>

NextScan == core_scan_directory_run

SpecScan == InitScan /\ [][NextScan]_vars

\* What C21 says a returned file satisfies, stated over the entry alone.
WithinBounds(v, lo, hi) == (lo.some => v >= lo.value) /\ (hi.some => v <= hi.value)

PassesFilters(e, o) ==
    /\ e.kind = "file"
    /\ o.max_depth.some => Len(e.dir) < o.max_depth.value
    /\ o.include_hidden \/ e.name[1] # "."
    /\ \A i \in 1..Len(o.ignore_patterns) :
          glob_new(o.ignore_patterns[i]).ok =>
              /\ ~glob_matches(o.ignore_patterns[i], e.name)
              /\ ~glob_matches(o.ignore_patterns[i], entry_path(e))
    /\ WithinBounds(e.size, o.min_size, o.max_size)
    /\ WithinBounds(e.modified, o.after_date, o.before_date)
    /\ o.name_startswith.some =>
          starts_with(str_to_lowercase(file_stem(e.name)), str_to_lowercase(o.name_startswith.value))
    /\ o.name_endswith.some =>
          ends_with(str_to_lowercase(file_stem(e.name)), str_to_lowercase(o.name_endswith.value))
    /\ o.name_contains.some =>
          contains(str_to_lowercase(e.name), str_to_lowercase(o.name_contains.value))
    /\ o.regex_pattern.some => matches_regex(e.name, o.regex_pattern.value) = Ok(TRUE)
    /\ o.mime_filter.some => matches_mime(e.name, o.mime_filter.value)

CasedString(spelling, caps) == [spelling |-> spelling, caps |-> caps]

\* str::to_lowercase clears the case of every position
cased_to_lowercase(s) == CasedString(s.spelling, {})

\* Classifier::new: the extension table, keyed by lowercase strings
Classifier_new ==
    [e \in ImagesExt \cup DocumentsExt \cup VideosExt \cup AudioExt \cup ArchivesExt
           \cup CodeExt \cup DataExt |->
        CASE e \in ImagesExt -> "Images"
          [] e \in DocumentsExt -> "Documents"
          [] e \in VideosExt -> "Videos"
          [] e \in AudioExt -> "Audio"
          [] e \in ArchivesExt -> "Archives"
          [] e \in CodeExt -> "Code"
          [] e \in DataExt -> "Data"]

\* HashMap::get: the key must equal a stored key, case included
extension_map_get(map, key) ==
    IF key.caps = {} /\ key.spelling \in DOMAIN map THEN Some(map[key.spelling]) ELSE NoValue

\* A variant of the lookup key that keeps the case of the argument
lookup_key_as_given(ext) == ext

lookup_key(ext) == cased_to_lowercase(ext)

\* Classifier::classify
core_classify(extension_map, extension) ==
    IF extension.some
    THEN LET found == extension_map_get(extension_map, lookup_key(extension.value))
         IN  IF found.some THEN found.value ELSE "Other"
    ELSE "Other"

CasePatterns == SUBSET (1..MaxCasedLetters)

ClassifyInputs ==
    {NoValue} \cup
    {Some(CasedString(s, c)) : s \in DOMAIN Classifier_new \cup {"xyz", "unknown"}, c \in CasePatterns}

InitClassify ==
    /\ input \in [classifier : {Classifier_new}, extension : ClassifyInputs]
    /\ output = [called |-> FALSE, ret |-> "Other"]
    /\ pc = "classify"
    /\ UnusedState

\* One call of classify; the classifier is borrowed immutably and stays as
\* it is.
core_classify_run ==
    /\ pc = "classify"
    /\ output' = [called |-> TRUE, ret |-> core_classify(input.classifier, input.extension)]
    /\ pc' = "classified"
    /\ UNCHANGED <<fs, ro, neat_ok, history, cmdVars, calls, input>>

NextClassify == core_classify_run

SpecClassify == InitClassify /\ [][NextClassify]_vars

\* C22: classify returns the same category for an extension whatever its
\* letter case (the category the table gives its lowercase spelling), Other
\* for an absent extension and for one not in the table, and nothing but the
\* argument decides the result.
C22_ClassifyIgnoresCase ==
    pc = "classified" =>
        LET ext == input.extension
        IN  /\ ~ext.some => output.ret = "Other"
            /\ (ext.some /\ ext.value.spelling \notin DOMAIN Classifier_new)
                  => output.ret = "Other"
            /\ (ext.some /\ ext.value.spelling \in DOMAIN Classifier_new)
                  => output.ret = Classifier_new[ext.value.spelling]
            /\ ext.some =>
                  \A c \in CasePatterns :
                      core_classify(input.classifier, Some(CasedString(ext.value.spelling, c)))
                          = output.ret

\* "PDF" was classified, as Documents.
C22_Witness ==
    /\ pc = "classified"
    /\ input.extension = Some(CasedString("pdf", {1, 2}))
    /\ output.ret = "Documents"

\* ------------------------------------------- core/cleaner.rs parse_duration
DurationMax == 2 ^ DurationBits - 1

Panicked == [ok |-> FALSE, panicked |-> TRUE]

\* str::trim
RECURSIVE trim_start(_)
trim_start(s) == IF s # <<>> /\ s[1] = " " THEN trim_start(Tail(s)) ELSE s

RECURSIVE trim_end(_)
trim_end(s) ==
    IF s # <<>> /\ s[Len(s)] = " " THEN trim_end(SubSeq(s, 1, Len(s) - 1)) ELSE s

trim(s) == trim_end(trim_start(s))

DigitChars == <<"0", "1", "2", "3", "4", "5", "6", "7", "8", "9">>
IsDigit(c) == \E d \in 1..Len(DigitChars) : DigitChars[d] = c
DigitValue(c) == (CHOOSE d \in 1..Len(DigitChars) : DigitChars[d] = c) - 1

RECURSIVE DecimalValue(_)
DecimalValue(digits) ==
    IF digits = <<>> THEN 0
    ELSE 10 * DecimalValue(SubSeq(digits, 1, Len(digits) - 1)) + DigitValue(digits[Len(digits)])

\* str::parse::<u64>: an optional "+", then one digit at least and digits
\* only, of a value that fits
parse_u64(num_str) ==
    LET digits == IF num_str # <<>> /\ num_str[1] = "+" THEN Tail(num_str) ELSE num_str
    IN  IF digits = <<>> \/ \E i \in 1..Len(digits) : ~IsDigit(digits[i]) THEN Err
        ELSE IF DecimalValue(digits) > DurationMax THEN Err
        ELSE Ok(DecimalValue(digits))

\* The outcomes of `num * unit` on u64: the product when it fits; when it
\* does not, a panic in a build with overflow checks and the wrapped product
\* in a build without.
secs_mul(num, unit) ==
    IF num * unit <= DurationMax THEN {Ok(num * unit)}
    ELSE {Panicked, Ok((num * unit) % (DurationMax + 1))}

\* parse_duration: the set of its outcomes
parse_duration(str) ==
    LET s == str_to_lowercase(trim(str))
    IN  IF s = <<>> THEN {Err}
        ELSE LET unit == IF ends_with(s, <<"d">>) THEN "d"
                         ELSE IF ends_with(s, <<"w">>) THEN "w"
                         ELSE IF ends_with(s, <<"h">>) THEN "h"
                         ELSE "d"
                 num_str == IF \E u \in {"d", "w", "h"} : ends_with(s, <<u>>)
                            THEN SubSeq(s, 1, Len(s) - 1) ELSE s
                 num == parse_u64(num_str)
             IN  IF ~num.ok THEN {Err}
                 ELSE CASE unit = "h" -> secs_mul(num.value, 3600)
                        [] unit = "d" -> secs_mul(num.value, 86400)
                        [] unit = "w" -> secs_mul(num.value, 604800)

DurationChars == {" ", "-", "+", "0", "1", "7", "a", "d", "D", "w", "h"}

InitDuration ==
    /\ input \in BoundedSeq(DurationChars, MaxDurationLen)
    /\ output = [called |-> FALSE, ret |-> Err]
    /\ pc = "parse"
    /\ UnusedState

parse_duration_run ==
    /\ pc = "parse"
    /\ \E ret \in parse_duration(input) : output' = [called |-> TRUE, ret |-> ret]
    /\ pc' = "parsed"
    /\ UNCHANGED <<fs, ro, neat_ok, history, cmdVars, calls, input>>

NextDuration == parse_duration_run

SpecDuration == InitDuration /\ [][NextDuration]_vars

\* The reading C23 gives of an input: digits, then h, d, w or nothing, with
\* blanks around.
DurationUnit(t) ==
    IF t # <<>> /\ lower(t[Len(t)]) \in {"h", "d", "w"} THEN lower(t[Len(t)]) ELSE "d"

DurationDigits(t) ==
    IF t # <<>> /\ lower(t[Len(t)]) \in {"h", "d", "w"} THEN SubSeq(t, 1, Len(t) - 1) ELSE t

IsNumber(digits) == digits # <<>> /\ \A i \in 1..Len(digits) : IsDigit(digits[i])

UnitSeconds(u) == CASE u = "h" -> 3600 [] u = "d" -> 86400 [] u = "w" -> 604800

\* C23: parse_duration of a non-negative integer n followed by h, d or w (any
\* letter case, blanks around) yields exactly n*3600, n*86400 or n*604800
\* seconds, a bare integer counts days, and empty, non-numeric or negative
\* input is rejected with an error.
C23_ParseDurationExact ==
    pc = "parsed" =>
        LET t == trim(input)
        IN  /\ IsNumber(DurationDigits(t)) =>
                  output.ret = Ok(DecimalValue(DurationDigits(t)) * UnitSeconds(DurationUnit(t)))
            /\ (t = <<>> \/ \E i \in 1..Len(DurationDigits(t)) :
                                DurationDigits(t)[i] \in {"-", "a", " ", "d", "D", "w", "h"})
                  => output.ret = Err
            /\ DurationDigits(t) = <<>> => output.ret = Err

\* The same for the inputs whose number of seconds fits in u64.
ParseDurationExactWhenItFits ==
    pc = "parsed" =>
        LET t == trim(input)
        IN  /\ (IsNumber(DurationDigits(t))
                /\ DecimalValue(DurationDigits(t)) * UnitSeconds(DurationUnit(t)) <= DurationMax) =>
                  output.ret = Ok(DecimalValue(DurationDigits(t)) * UnitSeconds(DurationUnit(t)))
            /\ (t = <<>> \/ \E i \in 1..Len(DurationDigits(t)) :
                                DurationDigits(t)[i] \in {"-", "a", " ", "d", "D", "w", "h"})
                  => output.ret = Err
            /\ DurationDigits(t) = <<>> => output.ret = Err

\* ------------------------------- core/cleaner.rs find_empty_dirs, clean.rs
\* fs::read_dir: the entries directly below a directory, in the order the
\* ranking `order` of the names gives (the order of read_dir is the file
\* system's).
read_dir(f, order, path) ==
    LET entries == {q \in DOMAIN f : Len(q) = Len(path) + 1 /\ IsPrefix(path, q)}
        rank(q) == CHOOSE i \in 1..Len(order) : order[i] = q[Len(q)]
    IN  CHOOSE s \in [1..Cardinality(entries) -> entries] :
            \A i, j \in 1..Cardinality(entries) : i < j => rank(s[i]) < rank(s[j])

\* `empty_dirs.push(path)` after the loop over the entries: `before` is the
\* list at entry, `after` the list once the entries were visited.  The
\* variant lists the directory ahead of what its entries added.
push_dir_first(before, after, path) ==
    Append(before, path) \o SubSeq(after, Len(before) + 1, Len(after))

push_dir(before, after, path) == Append(after, path)

RECURSIVE find_empty_dirs_recursive(_, _, _, _)
RECURSIVE visit_entries(_, _, _, _, _)

\* The loop `for entry in &entries` from entry i on: all_empty and the list
visit_entries(f, order, entries, i, acc) ==
    IF i > Len(entries) THEN acc
    ELSE IF is_dir(f, entries[i])
         THEN LET r == find_empty_dirs_recursive(f, order, entries[i], acc.empty_dirs)
              IN  visit_entries(f, order, entries, i + 1,
                                [all_empty |-> acc.all_empty /\ r.all_empty,
                                 empty_dirs |-> r.empty_dirs])
         ELSE visit_entries(f, order, entries, i + 1,
                            [all_empty |-> FALSE, empty_dirs |-> acc.empty_dirs])

find_empty_dirs_recursive(f, order, path, empty_dirs) ==
    IF ~is_dir(f, path) THEN [all_empty |-> FALSE, empty_dirs |-> empty_dirs]
    ELSE LET entries == read_dir(f, order, path)
         IN  IF entries = <<>>
             THEN [all_empty |-> TRUE, empty_dirs |-> Append(empty_dirs, path)]
             ELSE LET r == visit_entries(f, order, entries, 1,
                                         [all_empty |-> TRUE, empty_dirs |-> empty_dirs])
                  IN  IF r.all_empty
                      THEN [all_empty |-> TRUE,
                            empty_dirs |-> push_dir(empty_dirs, r.empty_dirs, path)]
                      ELSE r

find_empty_dirs(f, order, path) == find_empty_dirs_recursive(f, order, path, <<>>).empty_dirs

\* std::fs::remove_dir: removes a directory that has no entry
remove_dir_ok(f, p) == is_dir(f, p) /\ ~\E q \in DOMAIN f : q # p /\ IsPrefix(p, q)

\* `for dir in empty_dirs { if let Err(e) = fs::remove_dir(&dir) {...} }`
RECURSIVE remove_dirs(_, _, _)
remove_dirs(f, dirs, i) ==
    IF i > Len(dirs) THEN f
    ELSE remove_dirs(IF remove_dir_ok(f, dirs[i]) THEN remove_file_fs(f, dirs[i]) ELSE f,
                     dirs, i + 1)

TreeDirs == {<<A>>, <<B>>, <<A, A>>, <<A, B>>, <<B, A>>, <<A, A, A>>, <<A, A, B>>}
TreeFiles == {<<B>>, <<A, B>>, <<B, B>>, <<A, A, B>>}

TreeLayouts ==
    {MkFs(t[1], t[2]) :
        t \in {t \in (SUBSET TreeFiles) \X (SUBSET TreeDirs) :
                  /\ t[1] \cap t[2] = {}
                  /\ \A p \in t[1] \cup t[2] : Len(p) > 1 => Parent(p) \in t[2]}}

InitEmpty ==
    /\ fs \in TreeLayouts
    /\ input \in [order : {<<A, B>>, <<B, A>>}, execute : BOOLEAN, dry_run : BOOLEAN]
    /\ output = [called |-> FALSE, empty_dirs |-> <<>>]
    /\ pc = "clean"
    /\ ro = {}
    /\ neat_ok = TRUE
    /\ history = <<>>
    /\ moves = <<>>
    /\ idx = 0
    /\ result = OrganizeResultDefault
    /\ logger = <<>>
    /\ batch = NoBatch
    /\ mem = <<>>
    /\ undone = 0
    /\ errors = 0
    /\ performed = <<>>
    /\ replayed = <<>>
    /\ fs0 = fs
    /\ hist0 = history
    /\ calls = <<>>

\* commands/clean.rs run, the --empty-folders part
clean_empty_folders_run ==
    /\ pc = "clean"
    /\ LET empty_dirs == find_empty_dirs(fs, input.order, Root)
       IN  /\ output' = [called |-> TRUE, empty_dirs |-> empty_dirs]
           /\ fs' = IF empty_dirs # <<>> /\ organize_executes(input.execute, input.dry_run)
                    THEN remove_dirs(fs, empty_dirs, 1)
                    ELSE fs
    /\ pc' = "cleaned"
    /\ UNCHANGED <<ro, neat_ok, history, cmdVars, calls, input>>

NextEmpty == clean_empty_folders_run

SpecEmpty == InitEmpty /\ [][NextEmpty]_vars

\* The directories of a tree that have no file at or below them
FileFreeDirs(f) ==
    {d \in DOMAIN f : is_dir(f, d) /\ ~\E p \in Files(f) : IsPrefix(d, p)}

C25_UndoAlwaysRemovesBatch ==
    \A k \in 1..Len(calls) :
        (calls[k].cmd = "undo" /\ calls[k].ret = "Ok" /\ calls[k].hist0 # <<>>) =>
            calls[k].hist1 = pop_last(calls[k].hist0).rest

\* The same for the invocations that restored one file at least.
UndoRemovesBatchWhenItRestored ==
    \A k \in 1..Len(calls) :
        (calls[k].cmd = "undo" /\ calls[k].ret = "Ok" /\ calls[k].hist0 # <<>>
         /\ calls[k].result.undone > 0) =>
            calls[k].hist1 = pop_last(calls[k].hist0).rest

\* The contents held by the regular files of a filesystem
Contents_of(f) == {f[p].id : p \in Files(f)}

\* C26: undo never destroys data: when the source path of a logged Move is
\* occupied by another file at undo time, restoring the moved file neither
\* overwrites nor removes the occupant; every content on disk before an undo
\* step is on disk after it.
C26_UndoNeverDestroysData ==
    [][undo_step =>
          /\ Contents_of(fs) \subseteq Contents_of(fs')
          /\ LET op == Last(replayed')
             IN  (op.operation_type = "Move" /\ is_file(fs, op.to) /\ is_file(fs, op.from)
                  /\ op.to # op.from)
                     => \E p \in Files(fs') : fs'[p].id = fs[op.from].id]_vars

\* The same for the steps that find the source path free.
UndoKeepsDataWhenSourceIsFree ==
    [][(undo_step /\ ~exists(fs, Last(replayed').from)) =>
          Contents_of(fs) \subseteq Contents_of(fs')]_vars

\* ------------------------------------------- claims on find_duplicates, continued
\* C27: find_duplicates is complete and its groups are disjoint: any two
\* readable, non-empty input files with the same content byte for byte are in
\* one group together, and no input file is in more than one group or twice
\* in a group.
C27_CompleteAndDisjoint ==
    output.impl # "none" =>
        /\ \A x, y \in InputFiles :
              (x.path # y.path /\ x.readable /\ y.readable /\ x.size > 0
               /\ x.content = y.content)
                  => \E g \in output.groups : {x, y} \subseteq Members(g)
        /\ \A x \in InputFiles :
              Cardinality({g \in output.groups : x \in Members(g)}) <= 1
        /\ \A g \in output.groups :
              \A i, j \in 1..Len(g.files) : i # j => g.files[i] # g.files[j]

\* C27 witness: the core find_duplicates ran on three readable files with the
\* same non-empty content and returned the three in one group.
C27_Witness ==
    /\ output.impl = "core"
    /\ Len(input.files) = 3
    /\ \A x, y \in InputFiles : x.readable /\ x.size > 0 /\ x.content = y.content
    /\ \E g \in output.groups : Members(g) = InputFiles
    /\ Cardinality(output.groups) = 1

\* --------------------- commands/duplicates.rs and commands/similar.rs, whole
\* The path on disk of the input file numbered i
DiskPath(i) == << <<"f", i>> >>

\* The scanned directory: one regular file per input file, holding `content`
DiskOf(files, content(_)) ==
    [p \in {Root} \cup {DiskPath(files[i].path) : i \in 1..Len(files)} |->
        IF p = Root THEN DirEntry
        ELSE FileEntry(content(files[CHOOSE i \in 1..Len(files) : DiskPath(files[i].path) = p]))]

FileContent(file) == file.content
ImageContent(file) == <<"image", file.path>>

\* The orders in which a set of groups can lie in the result Vec
VecsOf(S) ==
    {s \in [1..Cardinality(S) -> S] : \A i, j \in 1..Cardinality(S) : i # j => s[i] # s[j]}

\* The path lists the deletion loops walk
DuplicatePaths(groups) ==
    [g \in 1..Len(groups) |->
        [k \in 1..Len(groups[g].files) |-> DiskPath(groups[g].files[k].path)]]

SimilarPaths(groups) ==
    [g \in 1..Len(groups) |->
        [representative |-> DiskPath(groups[g].representative.path),
         similar |-> [k \in 1..Len(groups[g].similar) |->
                         DiskPath(groups[g].similar[k].file.path)]]]

\* A variant of the loop over a group without `.skip(1)`
files_to_delete_all(group) == group

\* `group.files.iter().skip(1)`
files_to_delete(group) == Tail(group)

InitDelete ==
    /\ \/ \E n \in 0..MaxFiles, fam \in HashFamilies :
            \E cs \in [1..n -> Contents], bad \in 0..n :
               /\ input = [kind |-> "duplicates",
                           files |-> [i \in 1..n |-> FileInfo(i, cs[i], i # bad)],
                           fam |-> fam, threshold |-> 0]
               /\ fs = DiskOf(input.files, FileContent)
       \/ \E n \in 0..MaxImages :
            \E sup \in [1..n -> BOOLEAN],
               hs \in [1..n -> {Err} \cup {Ok(h) : h \in ImageHashes}],
               threshold \in 0..HashBits :
               /\ input = [kind |-> "similar",
                           files |-> [i \in 1..n |-> ImageFile(i, sup[i], hs[i])],
                           fam |-> "injective", threshold |-> threshold]
               /\ fs = DiskOf(input.files, ImageContent)
    /\ output = [deleting |-> FALSE, groups |-> <<>>, removed |-> <<>>]
    /\ pc = "delete"
    /\ ro \in ReadOnlyChoices
    /\ neat_ok = TRUE
    /\ history = <<>>
    /\ moves = <<>>
    /\ idx = 0
    /\ result = OrganizeResultDefault
    /\ logger = <<>>
    /\ batch = NoBatch
    /\ mem = <<>>
    /\ undone = 0
    /\ errors = 0
    /\ performed = <<>>
    /\ replayed = <<>>
    /\ fs0 = fs
    /\ hist0 = history
    /\ calls = <<>>

\* commands/duplicates.rs run: find_duplicates, then the deletion when it is
\* asked for and confirmed
duplicates_delete_run ==
    /\ pc = "delete"
    /\ input.kind = "duplicates"
    /\ \E order \in Orders(input.files), delete \in BOOLEAN, execute \in BOOLEAN,
          dry_run \in BOOLEAN, confirmed \in BOOLEAN :
         \E duplicates \in VecsOf(core_find_duplicates(input.files, order, input.fam)) :
            LET deleting == delete /\ execute /\ ~dry_run /\ duplicates # <<>> /\ confirmed
                paths == DuplicatePaths(duplicates)
                r == remove_each(fs, ro,
                                 Flatten([g \in 1..Len(paths) |-> files_to_delete(paths[g])]))
            IN  /\ fs' = IF deleting THEN r.fs ELSE fs
                /\ output' = [deleting |-> deleting, groups |-> duplicates,
                              removed |-> IF deleting THEN r.deleted ELSE <<>>]
    /\ pc' = "deleted"
    /\ UNCHANGED <<ro, neat_ok, history, cmdVars, calls, input>>

\* commands/similar.rs run: find_similar_images, then the deletion
similar_delete_run ==
    /\ pc = "delete"
    /\ input.kind = "similar"
    /\ \E delete \in BOOLEAN, execute \in BOOLEAN, dry_run \in BOOLEAN, confirm \in BOOLEAN :
         LET similar == find_similar_images(input.files, input.threshold)
             files_to_remove == similar_to_remove(SimilarPaths(similar))
             deleting == delete /\ execute /\ ~dry_run /\ similar # <<>>
                         /\ files_to_remove # <<>> /\ confirm
             r == remove_each(fs, ro, files_to_remove)
         IN  /\ fs' = IF deleting THEN r.fs ELSE fs
             /\ output' = [deleting |-> deleting, groups |-> similar,
                           removed |-> IF deleting THEN r.deleted ELSE <<>>]
    /\ pc' = "deleted"
    /\ UNCHANGED <<ro, neat_ok, history, cmdVars, calls, input>>

NextDelete == duplicates_delete_run \/ similar_delete_run

SpecDelete == InitDelete /\ [][NextDelete]_vars

SimilarDeletionWitness ==
    /\ pc = "deleted"
    /\ input.kind = "similar"
    /\ output.deleting
    /\ Len(output.groups) = 1
    /\ Len(output.removed) = 2
    /\ is_file(fs, DiskPath(output.groups[1].representative.path))

\* --------------------------------------------- claims on the History, continued
\* C29: a command that performed no successful operation adds nothing to
\* History: Logger.save with no logged operation returns Ok without loading
\* or writing the History, which stays as it was, and every batch in History
\* holds at least one operation.
C29_NoEmptyBatch ==
    /\ [](\A i \in 1..Len(history) : history[i].operations # <<>>)
    /\ [](\A k \in 1..Len(calls) :
            (calls[k].cmd \in {"execute_moves", "execute_clean"} /\ calls[k].performed = <<>>)
                => calls[k].hist1 = calls[k].hist0)
    /\ [][(execute_moves_save /\ logger = <<>>) =>
            /\ history' = history
            /\ Last(calls').ret = "Ok"]_vars

\* C29 witness: execute_moves tried its moves, none succeeded, and it
\* returned Ok with the History as it was, although the History directory
\* cannot be resolved.
C29_Witness ==
    /\ ~neat_ok
    /\ \E k \in 1..Len(calls) :
          /\ calls[k].cmd = "execute_moves"
          /\ calls[k].n > 0
          /\ calls[k].performed = <<>>
          /\ calls[k].ret = "Ok"
          /\ calls[k].hist1 = calls[k].hist0

\* ------------------------------------ utils/logger.rs: two processes saving
\* The History file: missing, being rewritten (created and not yet written),
\* or holding the JSON of `batches`; `inode` tells a file from the one that
\* replaces it at the same path once it was removed.
HistoryOnDisk(state, batches, inode) == [state |-> state, batches |-> batches, inode |-> inode]

Procs == {1, 2}

\* What each process logged
ProcBatches ==
    [Procs -> {OperationBatch("organize", <<FileOperation(<<A>>, <<B, A>>, "Move")>>),
               OperationBatch("clean", <<log_delete(<<>>, <<B, B>>)[1]>>)}]

\* History::load on the file as it is now: a missing file gives the default,
\* a file that does not parse gives the default and is removed
load_now(file) ==
    CASE file.state = "missing" -> [history |-> <<>>, file |-> file]
      [] file.state = "partial" ->
            [history |-> <<>>, file |-> HistoryOnDisk("missing", <<>>, file.inode)]
      [] file.state = "valid" -> [history |-> file.batches, file |-> file]

InitConc ==
    /\ history \in {HistoryOnDisk("missing", <<>>, 0)} \cup
                   {HistoryOnDisk("valid", h, 0) : h \in BoundedSeq({OldBatch, OldMoves}, 2)}
    /\ input \in ProcBatches
    /\ output = [p \in Procs |-> [pc |-> "load", mem |-> <<>>, inode |-> 0]]
    /\ pc = "concurrent"
    /\ fs = MkFs({}, {})
    /\ ro = {}
    /\ neat_ok = TRUE
    /\ moves = <<>>
    /\ idx = 0
    /\ result = OrganizeResultDefault
    /\ logger = <<>>
    /\ batch = NoBatch
    /\ mem = <<>>
    /\ undone = 0
    /\ errors = 0
    /\ performed = <<>>
    /\ replayed = <<>>
    /\ fs0 = fs
    /\ hist0 = <<>>
    /\ calls = <<>>

concFrame == <<fs, ro, neat_ok, pc, cmdVars, input>>

\* `let mut history = History::load()?;`
save_load(p) ==
    /\ output[p].pc = "load"
    /\ LET r == load_now(history)
       IN  /\ history' = r.file
           /\ output' = [output EXCEPT ![p] = [pc |-> "add", mem |-> r.history, inode |-> 0]]
    /\ calls' = Append(calls, <<p, "load">>)
    /\ UNCHANGED concFrame

\* `history.add_batch(self.command, self.operations);`
save_add_batch(p) ==
    /\ output[p].pc = "add"
    /\ output' = [output EXCEPT ![p].pc = "create",
                                ![p].mem = add_batch(output[p].mem, input[p].command,
                                                     input[p].operations)]
    /\ calls' = Append(calls, <<p, "add">>)
    /\ UNCHANGED <<history, concFrame>>

\* History::save, `File::create(&path)`: truncates the file, or makes a new one
save_create(p) ==
    /\ output[p].pc = "create"
    /\ LET ino == IF history.state = "missing" THEN history.inode + 1 ELSE history.inode
       IN  /\ history' = HistoryOnDisk("partial", <<>>, ino)
           /\ output' = [output EXCEPT ![p].pc = "write", ![p].inode = ino]
    /\ calls' = Append(calls, <<p, "create">>)
    /\ UNCHANGED concFrame

\* History::save, `serde_json::to_writer_pretty(writer, self)`: the bytes go to
\* the file the process created, which is the one at the path unless that
\* was removed since
save_write(p) ==
    /\ output[p].pc = "write"
    /\ history' = IF history.state # "missing" /\ history.inode = output[p].inode
                  THEN HistoryOnDisk("valid", output[p].mem, history.inode)
                  ELSE history
    /\ output' = [output EXCEPT ![p].pc = "done"]
    /\ calls' = Append(calls, <<p, "write">>)
    /\ UNCHANGED concFrame

NextConc ==
    \E p \in Procs : save_load(p) \/ save_add_batch(p) \/ save_create(p) \/ save_write(p)

SpecConc == InitConc /\ [][NextConc]_vars

BothDone == \A p \in Procs : output[p].pc = "done"

\* C30: when two invocations save their batches concurrently, both batches
\* are in the persisted History afterwards, under every interleaving of the
\* load, add_batch and save of the two processes.
C30_NoBatchLost ==
    BothDone =>
        /\ history.state = "valid"
        /\ \A p \in Procs : input[p] \in Range(history.batches)

\* The same when one process saves after the other has finished.
SerialSavesKeepBoth ==
    (BothDone /\ \E p \in Procs : \A i \in 1..4 : calls[i][1] = p) =>
        /\ history.state = "valid"
        /\ \A p \in Procs : input[p] \in Range(history.batches)

====
